---- MODULE Spec2Model ----
(***************************************************************************)
(* The ABCI application of pd (src/pd/src/app.rs) and its pending block    *)
(* (src/pd/src/pending_block.rs) as a state machine.  Every request        *)
(* handler is one action.  The note commitment tree is the sequence of its *)
(* leaves; Option<T> is a sequence of length at most one.                  *)
(***************************************************************************)
EXTENDS Integers, Sequences, FiniteSets, TLC

VARIABLES
    initialized,           \* InitChain has been handled (ABCI calls it once, first)
    aborted,               \* the process has panicked
    note_commitment_tree,  \* App.note_commitment_tree: the leaves, oldest first
    recent_anchors,        \* App.recent_anchors: VecDeque, front first
    mempool_nullifiers,    \* App.mempool_nullifiers
    pending_block,         \* App.pending_block: Option<PendingBlock>
    epoch_duration,        \* App.epoch_duration
    db_nullifiers,         \* state store: the rows of the nullifiers table, in insertion order
    rsp,                   \* the last request handled and the response it got
    commits,               \* history: number of Commit requests completed
    anchor_log,            \* history: every root pushed onto recent_anchors, oldest first
    block_notes,           \* history: the new notes of the transactions delivered since the last BeginBlock, in order
    block_nullifiers,      \* history: the nullifiers of the transactions delivered since the last BeginBlock
    block_mempool,         \* history: mempool_nullifiers as it stood at the last BeginBlock
    spent_committed,       \* history: the nullifiers of the transactions delivered in committed blocks
    reserved,              \* history: nullifiers admitted by CheckTx(New) and in no block committed since
    new_epoch,             \* the last EndBlock took its epoch-boundary branch ("new epoch")
    in_flight,             \* the futures returned by App::call and not yet completed
    replay,                \* a second run of the node: the consensus requests of the first, replayed
    builder,               \* transaction::Builder: the builder a client is chaining calls on
    built,                 \* Option<Result<Transaction, Error>>: what finalize returned
    fees_set,              \* history: the fees passed to set_fee, in call order
    genesis_request,            \* history: the InitChain request handled, and what failed while it was
    db_genesis_configuration, \* state store: the genesis configuration saved in the blobs table
    db_validators,         \* state store: the initial validators saved
    committed_block        \* history: the pending block last passed to State::commit_block

vars == <<initialized, aborted, note_commitment_tree, recent_anchors,
          mempool_nullifiers, pending_block, epoch_duration, db_nullifiers,
          rsp, commits, anchor_log, block_notes, block_nullifiers,
          block_mempool, spent_committed, reserved, new_epoch, in_flight,
          replay, builder, built, fees_set, genesis_request, db_genesis_configuration,
          db_validators, committed_block>>

app_vars == <<note_commitment_tree, recent_anchors, mempool_nullifiers,
              pending_block, epoch_duration, db_nullifiers>>

---------------------------------------------------------------------------
\* Bounds of the model.

MaxCommits == 2          \* Commit requests in a run of Spec
MaxLeaves == 3           \* leaves of a working tree
MaxCommitsW == 66        \* Commit requests in a run of SpecWindow
BusyCommitsW == 2        \* SpecWindow: the first blocks, in which transactions create notes
MaxCommitsA == 2         \* Commit requests in a run of SpecAsync
MaxCommitsT == 2         \* SpecTwin: Commit requests in a run
MaxDeliverT == 2         \* SpecTwin: DeliverTx requests in a block
MaxCommitsO == 2         \* Commit requests in a run of SpecAnyOrder
MaxHeight == 6           \* SpecAnyOrder: the heights EndBlock is sent with
MaxDuration == 3         \* SpecAnyOrder: the epoch durations genesis configures
MaxSpends == 2           \* SpecBuilder: add_spend calls on a builder
MaxOutputs == 2          \* SpecBuilder: add_output calls on a builder
MaxFeeCalls == 2         \* SpecBuilder: set_fee calls on a builder
MaxSpendsS == 2          \* SpecSigned: add_spend calls on a builder
MaxOutputsS == 1         \* SpecSigned: add_output calls on a builder
MaxFeeCallsS == 1        \* SpecSigned: set_fee calls on a builder
\* The order of the scalar field in the model.  It exceeds every total the bounds
\* above allow, as the order of Fr (about 2^251) exceeds every total of u64 amounts
\* that a transaction can hold.
FieldOrder == 11

NUM_RECENT_ANCHORS == 64

Nullifiers == {1, 2}
Commitments == {1, 2}

hist_vars == <<commits, anchor_log, block_notes, block_nullifiers, block_mempool,
               spent_committed, reserved>>

\* what InitChain alone writes
genesis_vars == <<genesis_request, db_genesis_configuration, db_validators>>

\* the client's builder and its result: no request handler touches them
builder_vars == <<builder, built, fees_set>>

---------------------------------------------------------------------------
\* Values.

None == <<>>
Some(x) == <<x>>

RECURSIVE Root(_)
\* merkle root of the tree with these leaves: an injective digest of the leaf sequence
Root(leaves) ==
    IF leaves = <<>> THEN 0
    ELSE Root(SubSeq(leaves, 1, Len(leaves) - 1)) * (Cardinality(Commitments) + 1)
         + leaves[Len(leaves)]

Range(s) == {s[i] : i \in 1..Len(s)}

\* the sequences over S without repetition, of length at most n
DistinctSeqs(S, n) ==
    UNION {{s \in [1..k -> S] : \A i, j \in 1..k : i # j => s[i] # s[j]} : k \in 0..n}

RECURSIVE SortedSeq(_)
\* BTreeSet iteration order
SortedSeq(S) ==
    IF S = {} THEN <<>>
    ELSE LET m == CHOOSE x \in S : \A y \in S : x <= y
         IN <<m>> \o SortedSeq(S \ {m})

\* Bytes that do not decode to a transaction.
Garbage ==
    [decodes |-> FALSE, stateless_ok |-> FALSE, spent_nullifiers |-> <<>>,
     new_notes |-> <<>>, anchor |-> 0]

\* A decoded transaction: whether its proofs and signatures verify, the nullifiers
\* of its spends, the commitments of its outputs, the merkle root its spends cite.
Transaction(ok, nfs, notes, anchor) ==
    [decodes |-> TRUE, stateless_ok |-> ok, spent_nullifiers |-> nfs,
     new_notes |-> notes, anchor |-> anchor]

\* The roots the tree has had since it was empty: what a transaction built by a
\* client at some time can cite.  Root(<<>>) is the root of no committed tree.
KnownRoots == {Root(SubSeq(note_commitment_tree, 1, k)) : k \in 0..Len(note_commitment_tree)}

\* the response to a request: code and log of CheckTx and DeliverTx, code -1 when
\* the handler panicked and no response was produced; the validators of an
\* InitChain response; and, of the request, the kind of a CheckTx and whether the
\* mempool-nullifier set held a nullifier of its transaction when it arrived
Response(req, code, log) ==
    [req |-> req, code |-> code, log |-> log, validators |-> <<>>,
     kind |-> "", held |-> FALSE]

---------------------------------------------------------------------------
\* PendingBlock (src/pd/src/pending_block.rs)

\* Epoch::from_blockheight(height, epoch_duration)
Epoch_from_blockheight(height, duration) ==
    [index |-> height \div duration, duration |-> duration]

\* Epoch::start_height
Epoch_start_height(epoch) == epoch.index * epoch.duration

\* i64::unsigned_abs
unsigned_abs(n) == IF n < 0 THEN -n ELSE n

PendingBlock_new(tree, duration) ==
    [height |-> None,
     note_commitment_tree |-> tree,
     notes |-> [c \in {} |-> 0],
     spent_nullifiers |-> {},
     new_assets |-> [id \in {} |-> ""],
     epoch |-> None,
     epoch_duration |-> duration]

PendingBlock_set_height(pb, height) ==
    [pb EXCEPT !.height = Some(height),
               !.epoch = Some(Epoch_from_blockheight(height, pb.epoch_duration))]

\* BTreeMap::insert on the notes map: a function from commitments to positions
notes_insert(notes, cm, position) ==
    [c \in DOMAIN notes \cup {cm} |-> IF c = cm THEN position ELSE notes[c]]

RECURSIVE add_notes_skip_known(_, _)
\* add_notes that does not append a commitment the notes map already holds
add_notes_skip_known(pb, new_notes) ==
    IF new_notes = <<>> THEN pb
    ELSE LET cm == Head(new_notes)
             known == cm \in DOMAIN pb.notes
             tree == IF known THEN pb.note_commitment_tree
                     ELSE Append(pb.note_commitment_tree, cm)
             position == Len(tree) - 1
         IN add_notes_skip_known(
                [pb EXCEPT !.note_commitment_tree = tree,
                           !.notes = notes_insert(pb.notes, cm, position)],
                Tail(new_notes))

RECURSIVE add_notes_position_after(_, _)
\* add_notes that records the number of leaves the tree holds after the append
add_notes_position_after(pb, new_notes) ==
    IF new_notes = <<>> THEN pb
    ELSE LET cm == Head(new_notes)
             tree == Append(pb.note_commitment_tree, cm)
             position == Len(tree)
         IN add_notes_position_after(
                [pb EXCEPT !.note_commitment_tree = tree,
                           !.notes = notes_insert(pb.notes, cm, position)],
                Tail(new_notes))

RECURSIVE add_notes(_, _)
\* the loop over transaction.new_notes: append, read the position, insert
add_notes(pb, new_notes) ==
    IF new_notes = <<>> THEN pb
    ELSE LET cm == Head(new_notes)
             tree == Append(pb.note_commitment_tree, cm)
             position == Len(tree) - 1
         IN add_notes([pb EXCEPT !.note_commitment_tree = tree,
                                 !.notes = notes_insert(pb.notes, cm, position)],
                      Tail(new_notes))

PendingBlock_add_transaction(pb, transaction) ==
    LET with_notes == add_notes(pb, transaction.new_notes)
    IN [with_notes EXCEPT !.spent_nullifiers = @ \cup Range(transaction.spent_nullifiers)]

---------------------------------------------------------------------------
\* The state store and the verification pipeline, as the application uses them.

\* State::nullifier(n).is_some(): n has a row in the nullifiers table
state_nullifier(n) == n \in Range(db_nullifiers)

\* State::commit_block: one row per spent nullifier of the block
state_commit_block(pb) == db_nullifiers \o SortedSeq(pb.spent_nullifiers)

\* PendingTransaction::verify_stateful(recent_anchors)
verify_stateful(tx, anchors) == tx.anchor \in Range(anchors)

---------------------------------------------------------------------------
\* App (src/pd/src/app.rs)

LogDecode == "decode"
LogStateless == "stateless"
LogMempool == "already present in mempool_nullifiers"
LogDatabase == "already present in database"
LogSpent == "was already spent in this block"
LogAnchor == "unknown anchor"
LogPanic == "panic"

\* Code that answers an error with the default response
Code_default_response(log) == IF log = LogPanic THEN -1 ELSE 0

\* the response code for the handler's result: Ok(()) is the default response
Code(log) == IF log = "" THEN 0 ELSE IF log = LogPanic THEN -1 ELSE 1

RECURSIVE mempool_scan_no_insert(_, _)
\* mempool_scan that tests each nullifier and inserts none
mempool_scan_no_insert(nfs, mp) ==
    IF nfs = <<>> THEN [err |-> FALSE, set |-> mp]
    ELSE IF Head(nfs) \in mp THEN [err |-> TRUE, set |-> mp]
    ELSE mempool_scan_no_insert(Tail(nfs), mp)

RECURSIVE mempool_scan(_, _)
\* check_tx, kind = New: the loop that tests each nullifier and inserts it
mempool_scan(nfs, mp) ==
    IF nfs = <<>> THEN [err |-> FALSE, set |-> mp]
    ELSE IF Head(nfs) \in mp THEN [err |-> TRUE, set |-> mp]
    ELSE mempool_scan(Tail(nfs), mp \cup {Head(nfs)})

\* check_tx without the stateful verification of the anchor
check_tx_no_stateful(kind, tx) ==
    IF ~tx.decodes THEN [log |-> LogDecode, mempool |-> mempool_nullifiers]
    ELSE IF ~tx.stateless_ok THEN [log |-> LogStateless, mempool |-> mempool_nullifiers]
    ELSE LET scan == IF kind = "New"
                     THEN mempool_scan(tx.spent_nullifiers, mempool_nullifiers)
                     ELSE [err |-> FALSE, set |-> mempool_nullifiers]
         IN IF scan.err THEN [log |-> LogMempool, mempool |-> scan.set]
            ELSE IF \E n \in Range(tx.spent_nullifiers) : state_nullifier(n)
                 THEN [log |-> LogDatabase, mempool |-> scan.set]
            ELSE [log |-> "", mempool |-> scan.set]

\* check_tx that runs the mempool loop whatever the kind of the request
check_tx_any_kind(kind, tx) ==
    IF ~tx.decodes THEN [log |-> LogDecode, mempool |-> mempool_nullifiers]
    ELSE IF ~tx.stateless_ok THEN [log |-> LogStateless, mempool |-> mempool_nullifiers]
    ELSE LET scan == mempool_scan(tx.spent_nullifiers, mempool_nullifiers)
         IN IF scan.err THEN [log |-> LogMempool, mempool |-> scan.set]
            ELSE IF \E n \in Range(tx.spent_nullifiers) : state_nullifier(n)
                 THEN [log |-> LogDatabase, mempool |-> scan.set]
            ELSE IF ~verify_stateful(tx, recent_anchors)
                 THEN [log |-> LogAnchor, mempool |-> scan.set]
            ELSE [log |-> "", mempool |-> scan.set]

\* check_tx: the error it returns ("" for Ok) and the mempool set it leaves
check_tx(kind, tx) ==
    IF ~tx.decodes THEN [log |-> LogDecode, mempool |-> mempool_nullifiers]
    ELSE IF ~tx.stateless_ok THEN [log |-> LogStateless, mempool |-> mempool_nullifiers]
    ELSE LET scan == IF kind = "New"
                     THEN mempool_scan(tx.spent_nullifiers, mempool_nullifiers)
                     ELSE [err |-> FALSE, set |-> mempool_nullifiers]
         IN IF scan.err THEN [log |-> LogMempool, mempool |-> scan.set]
            ELSE IF \E n \in Range(tx.spent_nullifiers) : state_nullifier(n)
                 THEN [log |-> LogDatabase, mempool |-> scan.set]
            ELSE IF ~verify_stateful(tx, recent_anchors)
                 THEN [log |-> LogAnchor, mempool |-> scan.set]
            ELSE [log |-> "", mempool |-> scan.set]

RECURSIVE deliver_scan_database_only(_)
\* deliver_scan without the test against the pending block's spent nullifiers
deliver_scan_database_only(nfs) ==
    IF nfs = <<>> THEN ""
    ELSE IF state_nullifier(Head(nfs)) THEN LogDatabase
    ELSE IF pending_block = None THEN LogPanic
    ELSE deliver_scan_database_only(Tail(nfs))

RECURSIVE deliver_scan_mempool(_)
\* deliver_scan that also rejects a nullifier found in the mempool-nullifier set
deliver_scan_mempool(nfs) ==
    IF nfs = <<>> THEN ""
    ELSE IF state_nullifier(Head(nfs)) THEN LogDatabase
    ELSE IF pending_block = None THEN LogPanic
    ELSE IF Head(nfs) \in pending_block[1].spent_nullifiers THEN LogSpent
    ELSE IF Head(nfs) \in mempool_nullifiers THEN LogMempool
    ELSE deliver_scan_mempool(Tail(nfs))

RECURSIVE deliver_scan(_)
\* deliver_tx: the loop over the nullifiers, database first, then this block
deliver_scan(nfs) ==
    IF nfs = <<>> THEN ""
    ELSE IF state_nullifier(Head(nfs)) THEN LogDatabase
    ELSE IF pending_block = None THEN LogPanic
    ELSE IF Head(nfs) \in pending_block[1].spent_nullifiers THEN LogSpent
    ELSE deliver_scan(Tail(nfs))

\* deliver_tx that folds the transaction into the pending block before the
\* stateful verification
deliver_tx_fold_first(tx) ==
    IF ~tx.decodes THEN [log |-> LogDecode, pending |-> pending_block]
    ELSE IF ~tx.stateless_ok THEN [log |-> LogStateless, pending |-> pending_block]
    ELSE LET scan == deliver_scan(tx.spent_nullifiers)
         IN IF scan # "" THEN [log |-> scan, pending |-> pending_block]
            ELSE IF pending_block = None
                 THEN [log |-> LogPanic, pending |-> pending_block]
            ELSE [log |-> IF verify_stateful(tx, recent_anchors) THEN "" ELSE LogAnchor,
                  pending |-> Some(PendingBlock_add_transaction(pending_block[1], tx))]

\* deliver_tx: the error it returns ("" for Ok, LogPanic for a failed expect) and
\* the pending block it leaves
deliver_tx(tx) ==
    IF ~tx.decodes THEN [log |-> LogDecode, pending |-> pending_block]
    ELSE IF ~tx.stateless_ok THEN [log |-> LogStateless, pending |-> pending_block]
    ELSE LET scan == deliver_scan(tx.spent_nullifiers)
         IN IF scan # "" THEN [log |-> scan, pending |-> pending_block]
            ELSE IF ~verify_stateful(tx, recent_anchors)
                 THEN [log |-> LogAnchor, pending |-> pending_block]
            ELSE IF pending_block = None
                 THEN [log |-> LogPanic, pending |-> pending_block]
            ELSE [log |-> "",
                  pending |-> Some(PendingBlock_add_transaction(pending_block[1], tx))]

\* evict that removes nothing
evict_none(mempool, pb) == mempool

\* evict that clears the mempool set
evict_all(mempool, pb) == {}

\* commit: the nullifiers of the block leave the mempool set
evict(mempool, pb) == mempool \ pb.spent_nullifiers

\* push_anchor that pushes at the back of the deque
push_anchor_back(anchors, anchor) ==
    LET pushed == anchors \o <<anchor>>
    IN IF Len(pushed) > NUM_RECENT_ANCHORS THEN Tail(pushed) ELSE pushed

\* push_anchor without the pop_back
push_anchor_no_pop(anchors, anchor) == <<anchor>> \o anchors

\* push_anchor that drops the front instead of the back
push_anchor_pop_front(anchors, anchor) ==
    LET pushed == <<anchor>> \o anchors
    IN IF Len(pushed) > NUM_RECENT_ANCHORS
       THEN SubSeq(pushed, 2, Len(pushed))
       ELSE pushed

\* commit: push_front of the new root, pop_back beyond NUM_RECENT_ANCHORS
push_anchor(anchors, anchor) ==
    LET pushed == <<anchor>> \o anchors
    IN IF Len(pushed) > NUM_RECENT_ANCHORS
       THEN SubSeq(pushed, 1, Len(pushed) - 1)
       ELSE pushed

\* App::commit on the pending block it has taken: what it does before it returns
\* its future
commit_sync(pb) ==
    /\ pending_block' = None
    /\ mempool_nullifiers' = evict(mempool_nullifiers, pb)
    /\ note_commitment_tree' = pb.note_commitment_tree
    /\ recent_anchors' = push_anchor(recent_anchors, Root(pb.note_commitment_tree))
    /\ anchor_log' = Append(anchor_log, Root(pb.note_commitment_tree))
    /\ spent_committed' = spent_committed \cup block_nullifiers
    /\ reserved' = reserved \ block_nullifiers

\* App::commit on the pending block it has taken, its future run to completion
commit(pb) ==
    /\ commit_sync(pb)
    /\ db_nullifiers' = state_commit_block(pb)
    /\ committed_block' = Some(pb)

\* the clones of the handle of the pending block (Arc<Mutex<PendingBlock>>) that
\* are alive beside the application's own: one in every deliver_tx future that has
\* not completed.  Arc::try_unwrap fails in commit while there is one.
pending_block_refs == {f \in in_flight : f.req = "DeliverTx"}

\* a failed expect in a handler that runs synchronously
Abort(req) ==
    /\ aborted' = TRUE
    /\ rsp' = Response(req, -1, LogPanic)
    /\ UNCHANGED <<initialized, app_vars, hist_vars, new_epoch, genesis_vars, committed_block>>

\* asset::REGISTRY: the denominations it parses
Registry == {"upenumbra", "X"}

\* asset::REGISTRY.parse_denom
parse_denom(denom) == IF denom \in Registry THEN Some(denom) ELSE None

\* Denom::id: the asset id of a denomination
Denom_id(denom) == [id_of |-> denom]

\* an allocation of the genesis app state: the commitment of the note it yields
\* (Allocation::note, which fails when the allocation is not valid) and its
\* denomination
Allocation(cm, valid, denom) == [note |-> cm, valid |-> valid, denom |-> denom]

\* a validator of the genesis app state
Validator(tm_pubkey, voting_power) ==
    [tm_pubkey |-> tm_pubkey, voting_power |-> voting_power]

\* genesis::AppState
GenesisAppState(allocations, validators, duration) ==
    [allocations |-> allocations, validators |-> validators,
     epoch_duration |-> duration]

\* the genesis app state with these allocation notes, in upenumbra, and no
\* validator
AppState(cms, duration) ==
    GenesisAppState([i \in 1..Len(cms) |-> Allocation(cms[i], TRUE, "upenumbra")],
                    <<>>, duration)

\* serde_json::from_slice(&init_chain.app_state_bytes): the bytes of an InitChain
\* request are the serialization of an app state, or they do not parse
Serialized(app_state) == [parses |-> TRUE, app_state |-> app_state]
Unparseable == [parses |-> FALSE, app_state |-> AppState(<<>>, 1)]

\* request::InitChain
Request_InitChain(app_state_bytes, validators) ==
    [app_state_bytes |-> app_state_bytes, validators |-> validators]

\* the note commitments of the allocations, in order
AllocationNotes(app_state) ==
    [i \in 1..Len(app_state.allocations) |-> app_state.allocations[i].note]

\* new_assets that records the asset of the first allocation only
genesis_new_assets_first(app_state) ==
    [id \in {Denom_id(app_state.allocations[i].denom) :
                i \in {j \in 1..Len(app_state.allocations) : j = 1}} |-> id.id_of]

\* init_genesis, the loop over the allocations: new_assets.insert(id, denom)
genesis_new_assets(app_state) ==
    [id \in {Denom_id(a.denom) : a \in Range(app_state.allocations)} |-> id.id_of]

\* init_genesis: the pending block it builds; notes is the order in which the
\* genesis transaction lists its outputs
genesis_block(app_state, notes) ==
    LET at_height_0 == PendingBlock_set_height(
                            PendingBlock_new(<<>>, epoch_duration), 0)
        with_assets == [at_height_0 EXCEPT !.new_assets = genesis_new_assets(app_state)]
    IN PendingBlock_add_transaction(with_assets, Transaction(TRUE, <<>>, notes, 0))

\* validators.iter().cloned().map(|v| (v.tm_pubkey().clone(), v)).collect(): a
\* BTreeMap, in which a later validator replaces an earlier one of the same key
collect_validators(validators) ==
    [k \in {v.tm_pubkey : v \in Range(validators)} |->
        validators[CHOOSE i \in 1..Len(validators) :
                      /\ validators[i].tm_pubkey = k
                      /\ \A j \in (i + 1)..Len(validators) : validators[j].tm_pubkey # k]]

\* tm_validators that repeats the validators of the request
tm_validators_of_request(init_chain, genesis_validators) ==
    [i \in 1..Len(init_chain.validators) |->
        [pub_key |-> init_chain.validators[i].tm_pubkey,
         power |-> init_chain.validators[i].voting_power]]

\* init_genesis, the loop over genesis_validators, in key order
tm_validators(init_chain, genesis_validators) ==
    LET keys == SortedSeq(DOMAIN genesis_validators)
    IN [i \in 1..Len(keys) |->
          [pub_key |-> keys[i], power |-> genesis_validators[keys[i]].voting_power]]

\* init_genesis panics before it returns its future: the app state does not parse,
\* an allocation yields no note or has no valid denomination, or the genesis
\* transaction cannot be formed
genesis_panics(init_chain, fault) ==
    \/ ~init_chain.app_state_bytes.parses
    \/ \E a \in Range(init_chain.app_state_bytes.app_state.allocations) :
          ~a.valid \/ parse_denom(a.denom) = None
    \/ fault = "finalize"

\* the future of a service call resolved to Err: no response, an error value
ServiceError == -2
LogStore == "state store"

\* what the future of init_genesis holds: the block commit() took, the app state,
\* the validators collected from it and the validator updates of the response
GenesisFuture(init_chain, notes) ==
    LET app_state == init_chain.app_state_bytes.app_state
        genesis_validators == collect_validators(app_state.validators)
    IN [block |-> genesis_block(app_state, notes),
        gc |-> app_state,
        genesis_validators |-> genesis_validators,
        tm_validators |-> tm_validators(init_chain, genesis_validators)]

\* init_genesis up to its async block, on a request that does not make it panic
init_genesis_sync(init_chain, notes) ==
    /\ epoch_duration' = init_chain.app_state_bytes.app_state.epoch_duration
    /\ commit_sync(GenesisFuture(init_chain, notes).block)

\* the future init_genesis returns, run to completion; fault is the call of the
\* state store that fails, if one does (app_hash: its call in the future of commit,
\* app_hash_2: its call after set_initial_validators, unwrapped).  The future
\* of commit panics when commit_block or app_hash fails; set_genesis_configuration
\* is unwrapped with expect; the error of set_initial_validators is returned with ?
init_genesis_async(g, fault) ==
    /\ db_nullifiers' = IF fault = "commit_block" THEN db_nullifiers
                        ELSE state_commit_block(g.block)
    /\ committed_block' = IF fault = "commit_block" THEN committed_block
                          ELSE Some(g.block)
    /\ db_genesis_configuration' =
          IF fault \in {"commit_block", "app_hash", "set_genesis_configuration"}
          THEN db_genesis_configuration ELSE Some(g.gc)
    /\ db_validators' = IF fault \in {"none", "app_hash_2"}
                        THEN Some(g.genesis_validators) ELSE db_validators
    /\ aborted' = (fault \in {"commit_block", "app_hash", "set_genesis_configuration",
                               "app_hash_2"})
    /\ rsp' = CASE fault = "none" ->
                    [Response("InitChain", 0, "") EXCEPT !.validators = g.tm_validators]
               [] fault = "set_initial_validators" ->
                    Response("InitChain", ServiceError, LogStore)
               [] OTHER -> Response("InitChain", -1, LogPanic)

\* notes lists the note commitments of the allocations, each as often, in some order
ListsAllocations(notes, app_state) ==
    /\ Len(notes) = Len(app_state.allocations)
    /\ \A cm \in Range(notes) \cup Range(AllocationNotes(app_state)) :
          Cardinality({i \in 1..Len(notes) : notes[i] = cm})
            = Cardinality({i \in 1..Len(notes) : AllocationNotes(app_state)[i] = cm})

\* App::init_genesis, its future run to completion
InitGenesis(init_chain, notes, fault) ==
    /\ genesis_request' = Some([request |-> init_chain, fault |-> fault])
    /\ IF genesis_panics(init_chain, fault)
       THEN /\ aborted' = TRUE
            /\ rsp' = Response("InitChain", -1, LogPanic)
            /\ UNCHANGED <<initialized, app_vars, hist_vars, new_epoch,
                           db_genesis_configuration, db_validators, committed_block>>
       ELSE /\ ListsAllocations(notes, init_chain.app_state_bytes.app_state)
            /\ init_genesis_sync(init_chain, notes)
            /\ init_genesis_async(GenesisFuture(init_chain, notes), fault)
            /\ initialized' = TRUE
            /\ UNCHANGED <<commits, block_notes, block_nullifiers, block_mempool,
                           new_epoch>>

\* InitChain with a request that carries app_state and no validators, while the
\* state store works
InitChain(app_state, notes) ==
    InitGenesis(Request_InitChain(Serialized(app_state), <<>>), notes, "none")

Info ==
    /\ rsp' = Response("Info", 0, "")
    /\ UNCHANGED <<initialized, aborted, app_vars, hist_vars, new_epoch, genesis_vars, committed_block>>

Query ==
    /\ rsp' = Response("Query", 0, "")
    /\ UNCHANGED <<initialized, aborted, app_vars, hist_vars, new_epoch, genesis_vars, committed_block>>

\* BeginBlock that starts the pending block from an empty tree, as init_genesis does
BeginBlock_empty_tree ==
    /\ pending_block' = Some(PendingBlock_new(<<>>, epoch_duration))
    /\ rsp' = Response("BeginBlock", 0, "")
    /\ block_notes' = <<>>
    /\ block_nullifiers' = {}
    /\ block_mempool' = mempool_nullifiers
    /\ UNCHANGED <<initialized, aborted, note_commitment_tree, recent_anchors,
                   mempool_nullifiers, epoch_duration, db_nullifiers, commits,
                   anchor_log, spent_committed, reserved, new_epoch, genesis_vars, committed_block>>

\* BeginBlock that keeps the pending block it finds
BeginBlock_keep_pending ==
    /\ pending_block' = IF pending_block = None
                        THEN Some(PendingBlock_new(note_commitment_tree, epoch_duration))
                        ELSE pending_block
    /\ rsp' = Response("BeginBlock", 0, "")
    /\ block_notes' = <<>>
    /\ block_nullifiers' = {}
    /\ block_mempool' = mempool_nullifiers
    /\ UNCHANGED <<initialized, aborted, note_commitment_tree, recent_anchors,
                   mempool_nullifiers, epoch_duration, db_nullifiers, commits,
                   anchor_log, spent_committed, reserved, new_epoch, genesis_vars, committed_block>>

BeginBlock ==
    /\ pending_block' = Some(PendingBlock_new(note_commitment_tree, epoch_duration))
    /\ rsp' = Response("BeginBlock", 0, "")
    /\ block_notes' = <<>>
    /\ block_nullifiers' = {}
    /\ block_mempool' = mempool_nullifiers
    /\ UNCHANGED <<initialized, aborted, note_commitment_tree, recent_anchors,
                   mempool_nullifiers, epoch_duration, db_nullifiers, commits,
                   anchor_log, spent_committed, reserved, new_epoch, genesis_vars, committed_block>>

CheckTx(kind, tx) ==
    LET r == check_tx(kind, tx)
    IN /\ mempool_nullifiers' = r.mempool
       /\ rsp' = [Response("CheckTx", Code(r.log), r.log) EXCEPT
                     !.kind = kind,
                     !.held = Range(tx.spent_nullifiers) \cap mempool_nullifiers # {}]
       /\ reserved' = IF kind = "New" /\ r.log = ""
                      THEN reserved \cup Range(tx.spent_nullifiers)
                      ELSE reserved
       /\ UNCHANGED <<initialized, aborted, note_commitment_tree, recent_anchors,
                      pending_block, epoch_duration, db_nullifiers, commits,
                      anchor_log, block_notes, block_nullifiers, block_mempool,
                      spent_committed, new_epoch, genesis_vars, committed_block>>

DeliverTx(tx) ==
    LET r == deliver_tx(tx)
    IN /\ aborted' = (r.log = LogPanic)
       /\ pending_block' = r.pending
       /\ rsp' = Response("DeliverTx", Code(r.log), r.log)
       /\ block_notes' = IF r.log = "" THEN block_notes \o tx.new_notes ELSE block_notes
       /\ block_nullifiers' = IF r.log = ""
                              THEN block_nullifiers \cup Range(tx.spent_nullifiers)
                              ELSE block_nullifiers
       /\ UNCHANGED <<initialized, note_commitment_tree, recent_anchors,
                      mempool_nullifiers, epoch_duration, db_nullifiers, commits,
                      anchor_log, block_mempool, spent_committed, reserved,
                      new_epoch, genesis_vars, committed_block>>

\* EndBlock that returns its response when there is no pending block
EndBlock_lenient(height) ==
    /\ pending_block' = IF pending_block = None THEN None
                        ELSE Some(PendingBlock_set_height(pending_block[1], height))
    /\ new_epoch' = (pending_block # None /\ height % pending_block[1].epoch_duration = 0)
    /\ rsp' = Response("EndBlock", 0, "")
    /\ UNCHANGED <<initialized, aborted, note_commitment_tree, recent_anchors,
                   mempool_nullifiers, epoch_duration, db_nullifiers, hist_vars, genesis_vars, committed_block>>

\* EndBlock that takes the epoch's index for its start height
EndBlock_epoch_index(height) ==
    IF pending_block = None
    THEN Abort("EndBlock")
    ELSE /\ pending_block' = Some(PendingBlock_set_height(pending_block[1], height))
         /\ new_epoch' = LET epoch == Epoch_from_blockheight(
                                          height, pending_block[1].epoch_duration)
                         IN unsigned_abs(height) = epoch.index
         /\ rsp' = Response("EndBlock", 0, "")
         /\ UNCHANGED <<initialized, aborted, note_commitment_tree, recent_anchors,
                        mempool_nullifiers, epoch_duration, db_nullifiers, hist_vars, genesis_vars, committed_block>>

EndBlock(height) ==
    IF pending_block = None
    THEN Abort("EndBlock")
    ELSE /\ pending_block' = Some(PendingBlock_set_height(pending_block[1], height))
         /\ new_epoch' = LET epoch == Epoch_from_blockheight(
                                          height, pending_block[1].epoch_duration)
                         IN unsigned_abs(height) = Epoch_start_height(epoch)
         /\ rsp' = Response("EndBlock", 0, "")
         /\ UNCHANGED <<initialized, aborted, note_commitment_tree, recent_anchors,
                        mempool_nullifiers, epoch_duration, db_nullifiers, hist_vars, genesis_vars, committed_block>>

Commit ==
    IF pending_block = None \/ pending_block_refs # {}
    THEN Abort("Commit")
    ELSE /\ commit(pending_block[1])
         /\ commits' = commits + 1
         /\ rsp' = Response("Commit", 0, "")
         /\ UNCHANGED <<initialized, aborted, epoch_duration, block_notes,
                        block_nullifiers, block_mempool, new_epoch, genesis_vars>>

---------------------------------------------------------------------------
\* App::call and the futures it returns (impl Service<Request> for App).  A
\* request whose handler is asynchronous is handled in two steps: the call, which
\* runs the handler up to its async block, and the completion of the future.

\* call without the sequencer for CheckTx
Sequenced_without_check_tx(req) == req \in {"DeliverTx", "Commit"}

\* call without the sequencer for DeliverTx
Sequenced_without_deliver_tx(req) == req \in {"CheckTx", "Commit"}

\* call without the sequencer for Commit
Sequenced_without_commit(req) == req \in {"CheckTx", "DeliverTx"}

\* the requests whose future call passes to sequencer.execute
Sequenced(req) == req \in {"CheckTx", "DeliverTx", "Commit"}

\* a future returned by call: kind and tx of a CheckTx or DeliverTx, the pending
\* block a Commit took; of a check_tx future polled step by step, the point it has
\* reached, the nullifier its loop is at and the recent anchors it cloned
Future(req, kind, tx, pb) ==
    [req |-> req, sequenced |-> Sequenced(req), kind |-> kind, tx |-> tx, pb |-> pb,
     pc |-> "start", i |-> 1, anchors |-> <<>>]

\* App::poll_ready: the sequencer is ready when the future it was last given has
\* completed
poll_ready == ~\E f \in in_flight : f.sequenced

CallInitChain(app_state, notes) ==
    /\ InitChain(app_state, notes)
    /\ in_flight' = in_flight \cup {Future("InitChain", "", None, None)}

CallInfo ==
    /\ in_flight' = in_flight \cup {Future("Info", "", None, None)}
    /\ UNCHANGED <<initialized, aborted, app_vars, rsp, hist_vars, new_epoch, genesis_vars, committed_block>>

CallCheckTx(kind, tx) ==
    /\ in_flight' = in_flight \cup {Future("CheckTx", kind, Some(tx), None)}
    /\ UNCHANGED <<initialized, aborted, app_vars, rsp, hist_vars, new_epoch, genesis_vars, committed_block>>

CallDeliverTx(tx) ==
    /\ in_flight' = in_flight \cup {Future("DeliverTx", "", Some(tx), None)}
    /\ UNCHANGED <<initialized, aborted, app_vars, rsp, hist_vars, new_epoch, genesis_vars, committed_block>>

CallCommit ==
    IF pending_block = None \/ pending_block_refs # {}
    THEN Abort("Commit") /\ UNCHANGED in_flight
    ELSE /\ commit_sync(pending_block[1])
         /\ in_flight' = in_flight \cup {Future("Commit", "", None, pending_block)}
         /\ UNCHANGED <<initialized, aborted, epoch_duration, db_nullifiers, rsp,
                        commits, block_notes, block_nullifiers, block_mempool,
                        new_epoch, genesis_vars, committed_block>>

\* the future f runs to completion and its response is sent
Complete(f) ==
    /\ in_flight' = in_flight \ {f}
    /\ CASE f.req = "CheckTx" -> CheckTx(f.kind, f.tx[1])
         [] f.req = "DeliverTx" -> DeliverTx(f.tx[1])
         [] f.req = "Commit" ->
              /\ db_nullifiers' = state_commit_block(f.pb[1])
              /\ committed_block' = f.pb
              /\ commits' = commits + 1
              /\ rsp' = Response("Commit", 0, "")
              /\ UNCHANGED <<initialized, aborted, note_commitment_tree,
                             recent_anchors, mempool_nullifiers, pending_block,
                             epoch_duration, anchor_log, block_notes,
                             block_nullifiers, block_mempool, spent_committed,
                             reserved, new_epoch, genesis_vars>>
         [] f.req = "InitChain" ->
              /\ rsp' = Response("InitChain", 0, "")
              /\ UNCHANGED <<initialized, aborted, app_vars, hist_vars, new_epoch, genesis_vars, committed_block>>
         [] f.req = "Info" -> Info

\* check_tx up to its async block: the future holds the request and a clone of
\* the recent anchors
check_tx_future(kind, tx) ==
    [Future("CheckTx", kind, Some(tx), None) EXCEPT !.anchors = recent_anchors]

\* what one step of a check_tx future leaves: the future has returned log ("" for
\* Ok), or it goes on from pc at nullifier i; set is the mempool-nullifier set
Returned(log, set) == [done |-> TRUE, log |-> log, mempool |-> set, future |-> None]
GoesOn(f, pc, i, set) ==
    [done |-> FALSE, log |-> "", mempool |-> set,
     future |-> Some([f EXCEPT !.pc = pc, !.i = i])]

\* the async block of check_tx, one step at a time.  start: decoding and stateless
\* verification; test: lock, contains, unlock; insert: lock, insert, unlock;
\* database: one state.nullifier(..).await; stateful: verify_stateful on the
\* anchors cloned at the call
check_tx_step(f) ==
    LET tx == f.tx[1]
        nfs == tx.spent_nullifiers
        last == f.i = Len(nfs)
        database == IF nfs = <<>> THEN "stateful" ELSE "database"
    IN CASE f.pc = "start" ->
              IF ~tx.decodes THEN Returned(LogDecode, mempool_nullifiers)
              ELSE IF ~tx.stateless_ok THEN Returned(LogStateless, mempool_nullifiers)
              ELSE GoesOn(f, IF f.kind = "New" /\ nfs # <<>> THEN "test" ELSE database,
                          1, mempool_nullifiers)
         [] f.pc = "test" ->
              IF nfs[f.i] \in mempool_nullifiers
              THEN Returned(LogMempool, mempool_nullifiers)
              ELSE GoesOn(f, "insert", f.i, mempool_nullifiers)
         [] f.pc = "insert" ->
              GoesOn(f, IF last THEN "database" ELSE "test",
                     IF last THEN 1 ELSE f.i + 1, mempool_nullifiers \cup {nfs[f.i]})
         [] f.pc = "database" ->
              IF state_nullifier(nfs[f.i]) THEN Returned(LogDatabase, mempool_nullifiers)
              ELSE GoesOn(f, IF last THEN "stateful" ELSE "database",
                          IF last THEN 1 ELSE f.i + 1, mempool_nullifiers)
         [] f.pc = "stateful" ->
              Returned(IF verify_stateful(tx, f.anchors) THEN "" ELSE LogAnchor,
                       mempool_nullifiers)

\* call, Request::CheckTx: check_tx is called and its future given to the sequencer
SubmitCheckTx(kind, tx) ==
    /\ in_flight' = in_flight \cup {check_tx_future(kind, tx)}
    /\ UNCHANGED <<initialized, aborted, app_vars, rsp, hist_vars, new_epoch,
                   genesis_vars, committed_block>>

\* the executor polls the check_tx future f for one step; when it returns, the
\* response is sent
StepCheckTx(f) ==
    LET r == check_tx_step(f)
        admitted == r.done /\ f.kind = "New" /\ r.log = ""
    IN /\ f.req = "CheckTx"
       /\ mempool_nullifiers' = r.mempool
       /\ in_flight' = (in_flight \ {f}) \cup (IF r.done THEN {} ELSE {r.future[1]})
       /\ rsp' = IF r.done
                 THEN [Response("CheckTx", Code(r.log), r.log) EXCEPT !.kind = f.kind]
                 ELSE rsp
       /\ reserved' = IF admitted THEN reserved \cup Range(f.tx[1].spent_nullifiers)
                      ELSE reserved
       /\ UNCHANGED <<initialized, aborted, note_commitment_tree, recent_anchors,
                      pending_block, epoch_duration, db_nullifiers, commits,
                      anchor_log, block_notes, block_nullifiers, block_mempool,
                      spent_committed, new_epoch, genesis_vars, committed_block>>

---------------------------------------------------------------------------
\* transaction::Builder (src/crypto/src/transaction/builder.rs)

\* Group elements are linear combinations of independent generators, one per asset
\* (asset::Id::value_generator) and the blinding generator H: an element is the
\* function from generators to its coefficients, scalars of the field Fr.
Assets == {"upenumbra", "X"}
Generators == Assets \cup {"H"}
Fr == 0..(FieldOrder - 1)

\* decaf377::Element::default(): the identity
Identity == [g \in Generators |-> 0]

ElementAdd(a, b) == [g \in Generators |-> (a[g] + b[g]) % FieldOrder]
ElementSub(a, b) == [g \in Generators |-> (a[g] + FieldOrder - b[g]) % FieldOrder]

\* scalar * generator
ScalarMul(k, gen) == [g \in Generators |-> IF g = gen THEN k % FieldOrder ELSE 0]

FrAdd(a, b) == (a + b) % FieldOrder
FrSub(a, b) == (a + FieldOrder - b) % FieldOrder

\* Fr::from(u64)
Fr_from(amount) == amount % FieldOrder

\* Value { amount, asset_id }
Value(amount, asset_id) == [amount |-> amount, asset_id |-> asset_id]

\* Value::commit(blinding): amount * G_asset + blinding * H
Value_commit(value, blinding) ==
    ElementAdd(ScalarMul(Fr_from(value.amount), value.asset_id), ScalarMul(blinding, "H"))

\* the builder before any call: nothing added, nothing set, identity sums
Builder_new ==
    [spends |-> <<>>, outputs |-> <<>>, fee |-> None,
     synthetic_blinding_factor |-> 0,
     value_commitments |-> Identity,
     value_balance |-> Identity,
     expiry_height |-> None,
     chain_id |-> None]

\* SigningKey::randomize: the key sk randomized by the scalar r
SigningKey_randomize(sk, r) == [sk |-> sk, randomizer |-> r]

\* the verification key of a signing key
VerificationKey(sk) == [vk_of |-> sk]

\* SigningKey::sign: the signature that key makes over msg
Sign(key, msg) == <<key, msg>>

\* Signature::from([0; 64]): the all-zero signature, the signature of no key
ZeroSignature == <<>>

\* TransactionBody::sighash: a digest of the body as it stands
sighash(transaction_body) == [hash_of |-> transaction_body]

\* Builder::add_spend: v_blinding and spend_auth_randomizer are the scalars drawn
\* from the rng, in that order; the entry pushed is the pair (rsk, body)
add_spend(self, v_blinding, spend_auth_randomizer, spend_key, note) ==
    LET value_commitment == Value_commit(note.value, v_blinding)
        rsk == SigningKey_randomize(spend_key, spend_auth_randomizer)
        body == [note |-> note, v_blinding |-> v_blinding,
                 value_commitment |-> value_commitment,
                 rk |-> VerificationKey(rsk)]
    IN [self EXCEPT
          !.synthetic_blinding_factor = FrAdd(@, v_blinding),
          !.value_balance =
              ElementAdd(@, ScalarMul(Fr_from(note.value.amount), note.value.asset_id)),
          !.value_commitments = ElementAdd(@, value_commitment),
          !.spends = Append(@, [rsk |-> rsk, body |-> body])]

\* Builder::add_output_producing_note (and add_output, which drops the note)
add_output(self, v_blinding, value_to_send) ==
    LET note == [value |-> value_to_send]
        body == [note |-> note, v_blinding |-> v_blinding,
                 value_commitment |-> Value_commit(note.value, v_blinding)]
    IN [self EXCEPT
          !.synthetic_blinding_factor = FrSub(@, v_blinding),
          !.value_balance =
              ElementSub(@, ScalarMul(Fr_from(note.value.amount), note.value.asset_id)),
          !.value_commitments = ElementSub(@, body.value_commitment),
          !.outputs = Append(@, body)]

\* Builder::set_fee
set_fee(self, fee) ==
    LET asset_id == "upenumbra"
        fee_value == Value(fee, asset_id)
        fee_v_blinding == 0
        value_commitment == Value_commit(fee_value, fee_v_blinding)
    IN [self EXCEPT
          !.synthetic_blinding_factor = FrSub(@, fee_v_blinding),
          !.value_balance = ElementSub(@, ScalarMul(Fr_from(fee), asset_id)),
          !.value_commitments = ElementSub(@, value_commitment),
          !.fee = Some(fee)]

\* Builder::set_expiry_height
set_expiry_height(self, expiry_height) ==
    [self EXCEPT !.expiry_height = Some(expiry_height)]

\* Builder::set_chain_id
set_chain_id(self, chain_id) == [self EXCEPT !.chain_id = Some(chain_id)]

\* Builder::compute_binding_sig: whether its assert_eq passes
binding_key_matches(self) ==
    ScalarMul(self.synthetic_blinding_factor, "H") = self.value_commitments

\* the permutations of 1..n: what a shuffle of n items can produce
ShuffleOutcomes(n) == {p \in [1..n -> 1..n] : \A i, j \in 1..n : p[i] = p[j] => i = j}

\* the sequence s in the order p
Shuffled(s, p) == [i \in 1..Len(s) |-> s[p[i]]]

Ok(transaction) == [ok |-> TRUE, transaction |-> transaction, err |-> ""]
Err(e) == [ok |-> FALSE, transaction |-> <<>>, err |-> e]

\* Option::unwrap_or
unwrap_or(option, default) == IF option = None THEN default ELSE option[1]

\* finalize, the actions as first pushed: the spends with blank signatures, then
\* the outputs
blank_actions(spends, outputs) ==
    [i \in 1..Len(spends) |->
        [kind |-> "Spend", body |-> spends[i].body, auth_sig |-> ZeroSignature]]
    \o [i \in 1..Len(outputs) |-> [kind |-> "Output", body |-> outputs[i]]]

\* blank_actions that pushes the outputs first
blank_actions_outputs_first(spends, outputs) ==
    [i \in 1..Len(outputs) |-> [kind |-> "Output", body |-> outputs[i]]]
    \o [i \in 1..Len(spends) |->
          [kind |-> "Spend", body |-> spends[i].body, auth_sig |-> ZeroSignature]]

\* the signing loop where the signing keys were left in the order the spends were
\* added in: action i is signed with the key of the i-th spend added
sign_spends_unshuffled(self, spends, actions, hash) ==
    [i \in 1..Len(actions) |->
        IF i <= Len(spends)
        THEN [actions[i] EXCEPT !.auth_sig = Sign(self.spends[i].rsk, hash)]
        ELSE actions[i]]

\* finalize, the signing loop: action i, for i below the number of spends, gets
\* the signature of the key of the i-th shuffled spend over the sighash
sign_spends(self, spends, actions, hash) ==
    [i \in 1..Len(actions) |->
        IF i <= Len(spends)
        THEN [actions[i] EXCEPT !.auth_sig = Sign(spends[i].rsk, hash)]
        ELSE actions[i]]

\* the signing loop reaches its unreachable!(): one of the first actions, as many
\* as there are spends, is no Spend
signing_unreachable(spends, actions) ==
    \E i \in 1..Len(spends) : actions[i].kind # "Spend"

\* finalize past its three tests; ps and po are the outcomes of the two shuffles
finalize_build(self, ps, po) ==
    LET spends == Shuffled(self.spends, ps)
        outputs == Shuffled(self.outputs, po)
        actions == blank_actions(spends, outputs)
        transaction_body == [actions |-> actions,
                             expiry_height |-> unwrap_or(self.expiry_height, 0),
                             chain_id |-> self.chain_id[1],
                             fee |-> self.fee[1]]
        hash == sighash(transaction_body)
    IN IF signing_unreachable(spends, actions) THEN Err("unreachable")
       ELSE IF ~binding_key_matches(self) THEN Err("panic")
       ELSE Ok([actions |-> sign_spends(self, spends, actions, hash),
                expiry_height |-> transaction_body.expiry_height,
                chain_id |-> transaction_body.chain_id,
                fee |-> transaction_body.fee,
                sighash |-> hash,
                binding_key |-> self.synthetic_blinding_factor])

\* finalize that tests the fee before the chain id
finalize_fee_first(self, ps, po) ==
    IF self.fee = None THEN Err("FeeNotSet")
    ELSE IF self.chain_id = None THEN Err("NoChainID")
    ELSE IF self.value_balance # Identity THEN Err("NonZeroValueBalance")
    ELSE finalize_build(self, ps, po)

\* finalize that emits the outputs before the spends, and whose signing loop
\* passes over an action that is no Spend
finalize_outputs_first(self, ps, po) ==
    IF self.chain_id = None THEN Err("NoChainID")
    ELSE IF self.fee = None THEN Err("FeeNotSet")
    ELSE IF self.value_balance # Identity THEN Err("NonZeroValueBalance")
    ELSE LET spends == Shuffled(self.spends, ps)
             actions == blank_actions_outputs_first(spends, Shuffled(self.outputs, po))
             expiry_height == unwrap_or(self.expiry_height, 0)
             hash == sighash([actions |-> actions, expiry_height |-> expiry_height,
                              chain_id |-> self.chain_id[1], fee |-> self.fee[1]])
         IN Ok([actions |-> [i \in 1..Len(actions) |->
                               IF i <= Len(spends) /\ actions[i].kind = "Spend"
                               THEN [actions[i] EXCEPT
                                        !.auth_sig = Sign(spends[i].rsk, hash)]
                               ELSE actions[i]],
                expiry_height |-> expiry_height,
                chain_id |-> self.chain_id[1],
                fee |-> self.fee[1],
                sighash |-> hash,
                binding_key |-> self.synthetic_blinding_factor])

\* Builder::finalize; ps and po are the outcomes of the two shuffles
finalize(self, ps, po) ==
    IF self.chain_id = None THEN Err("NoChainID")
    ELSE IF self.fee = None THEN Err("FeeNotSet")
    ELSE IF self.value_balance # Identity THEN Err("NonZeroValueBalance")
    ELSE finalize_build(self, ps, po)

\* everything but the builder: the client's calls do not touch the node
node_vars == <<initialized, aborted, app_vars, rsp, hist_vars, new_epoch, in_flight,
               replay, genesis_vars, committed_block>>

AddSpend(v_blinding, spend_auth_randomizer, spend_key, note) ==
    /\ builder' = add_spend(builder, v_blinding, spend_auth_randomizer, spend_key, note)
    /\ UNCHANGED <<built, fees_set, node_vars>>

AddOutput(v_blinding, value_to_send) ==
    /\ builder' = add_output(builder, v_blinding, value_to_send)
    /\ UNCHANGED <<built, fees_set, node_vars>>

SetFee(fee) ==
    /\ builder' = set_fee(builder, fee)
    /\ fees_set' = Append(fees_set, fee)
    /\ UNCHANGED <<built, node_vars>>

SetExpiryHeight(expiry_height) ==
    /\ builder' = set_expiry_height(builder, expiry_height)
    /\ UNCHANGED <<built, fees_set, node_vars>>

SetChainId(chain_id) ==
    /\ builder' = set_chain_id(builder, chain_id)
    /\ UNCHANGED <<built, fees_set, node_vars>>

Finalize(ps, po) ==
    /\ built' = Some(finalize(builder, ps, po))
    /\ UNCHANGED <<builder, fees_set, node_vars>>

---------------------------------------------------------------------------
\* The consensus engine: what it sends, and in which states.

TxNotes == {<<>>, <<1>>, <<2, 1>>}
NullifierSeqs == {<<>>, <<1>>, <<2>>, <<1, 2>>}
NoteSeqs == DistinctSeqs(Commitments, 2)

\* The transactions offered in Spec: bytes that do not decode, transactions whose
\* proofs fail, and well-formed ones with up to two spends and up to two outputs,
\* citing the root of the committed tree or the root of the empty tree.
Txs ==
    {Garbage}
    \cup {Transaction(FALSE, <<n>>, <<>>, Root(note_commitment_tree)) : n \in Nullifiers}
    \cup {Transaction(TRUE, nfs, notes, Root(note_commitment_tree)) :
            nfs \in NullifierSeqs, notes \in TxNotes}
    \cup {Transaction(TRUE, nfs, <<1>>, Root(<<>>)) : nfs \in NullifierSeqs}

\* The transactions offered in SpecWindow: no spends, one output in the first
\* blocks and none later, citing any root the committed tree has had.
TxsW ==
    {Transaction(TRUE, <<>>, notes, anchor) :
        notes \in {<<>>} \cup (IF commits < BusyCommitsW THEN {<<1>>} ELSE {}),
        anchor \in KnownRoots \ {Root(<<>>)}}

\* The genesis app states offered: one allocation in Spec, one or two in SpecWindow.
AppStates == {AppState(<<1>>, 2)}
AppStatesW == {AppState(cms, 2) : cms \in {<<1>>, <<1, 2>>}}

\* a transaction that would grow the working tree beyond the bound is not offered
Fits(tx) ==
    pending_block # None =>
        Len(pending_block[1].note_commitment_tree) + Len(tx.new_notes) <= MaxLeaves

Init ==
    /\ initialized = FALSE
    /\ aborted = FALSE
    /\ note_commitment_tree = <<>>
    /\ recent_anchors = <<>>
    /\ mempool_nullifiers = {}
    /\ pending_block = None
    /\ epoch_duration = 1
    /\ db_nullifiers = <<>>
    /\ rsp = Response("", 0, "")
    /\ commits = 0
    /\ anchor_log = <<>>
    /\ block_notes = <<>>
    /\ block_nullifiers = {}
    /\ block_mempool = {}
    /\ spent_committed = {}
    /\ reserved = {}
    /\ new_epoch = FALSE
    /\ in_flight = {}
    /\ replay = [phase |-> "record", script |-> <<>>, pos |-> 1]
    /\ builder = Builder_new
    /\ built = None
    /\ fees_set = <<>>
    /\ genesis_request = None
    /\ db_genesis_configuration = None
    /\ db_validators = None
    /\ committed_block = None

\* ABCI: InitChain once, first; then blocks as BeginBlock, DeliverTx*, EndBlock,
\* Commit on the consensus connection.  CheckTx arrives on the mempool connection:
\* between blocks in Spec, at any time in SpecWindow.  (check_tx reads and writes
\* nothing that BeginBlock, DeliverTx or EndBlock write, so a CheckTx handled
\* during a block leaves the state it would have left before the BeginBlock.)
InBlock == pending_block # None /\ pending_block[1].height = None
BlockEnded == pending_block # None /\ pending_block[1].height # None
Running == initialized /\ ~aborted

\* what the atomic specifications leave alone: every future completes before the
\* next request is handled, there is one run, and no client is building
other_vars == <<in_flight, replay, builder_vars>>

Next ==
    \/ /\ ~initialized /\ ~aborted
       /\ \E app_state \in AppStates : \E notes \in NoteSeqs : InitChain(app_state, notes)
       /\ UNCHANGED other_vars
    \/ Running /\ pending_block = None /\ commits < MaxCommits /\ BeginBlock
               /\ UNCHANGED other_vars
    \/ /\ Running /\ pending_block = None
       /\ \E kind \in {"New", "Recheck"} : \E tx \in Txs : CheckTx(kind, tx)
       /\ UNCHANGED other_vars
    \/ /\ Running /\ InBlock
       /\ \E tx \in Txs : Fits(tx) /\ DeliverTx(tx)
       /\ UNCHANGED other_vars
    \/ Running /\ InBlock /\ EndBlock(commits + 1) /\ UNCHANGED other_vars
    \/ Running /\ BlockEnded /\ Commit /\ UNCHANGED other_vars

Spec == Init /\ [][Next]_vars

\* Long runs, to fill the recent-anchors window and roll it over.
NextW ==
    \/ /\ ~initialized /\ ~aborted
       /\ \E app_state \in AppStatesW : \E notes \in NoteSeqs : InitChain(app_state, notes)
       /\ UNCHANGED other_vars
    \/ ~aborted /\ Info /\ UNCHANGED other_vars
    \/ ~aborted /\ Query /\ UNCHANGED other_vars
    \/ Running /\ pending_block = None /\ commits < MaxCommitsW /\ BeginBlock
               /\ UNCHANGED other_vars
    \/ /\ Running
       /\ \E kind \in {"New", "Recheck"} : \E tx \in TxsW : CheckTx(kind, tx)
       /\ UNCHANGED other_vars
    \/ /\ Running /\ InBlock
       /\ \E tx \in TxsW : Fits(tx) /\ DeliverTx(tx)
       /\ UNCHANGED other_vars
    \/ Running /\ InBlock /\ EndBlock(commits + 1) /\ UNCHANGED other_vars
    \/ Running /\ BlockEnded /\ Commit /\ UNCHANGED other_vars

SpecWindow == Init /\ [][NextW]_vars

\* The server calls the service whenever it is ready, without waiting for the
\* futures of earlier requests: the consensus requests in block order, CheckTx and
\* Info at any time.
TxsA == {Transaction(TRUE, <<n>>, <<>>, Root(note_commitment_tree)) : n \in Nullifiers}
CommitsCalled == commits + Cardinality({f \in in_flight : f.req = "Commit"})

NextA ==
    \/ /\ ~initialized /\ ~aborted /\ poll_ready
       /\ \E app_state \in AppStates : \E notes \in NoteSeqs :
             CallInitChain(app_state, notes)
       /\ UNCHANGED <<replay, builder_vars>>
    \/ ~aborted /\ poll_ready /\ CallInfo /\ UNCHANGED <<replay, builder_vars>>
    \/ ~aborted /\ poll_ready /\ Query /\ UNCHANGED other_vars
    \/ Running /\ poll_ready /\ pending_block = None /\ CommitsCalled < MaxCommitsA
               /\ BeginBlock /\ UNCHANGED other_vars
    \/ /\ Running /\ poll_ready
       /\ \E kind \in {"New", "Recheck"} : \E tx \in TxsA : CallCheckTx(kind, tx)
       /\ UNCHANGED <<replay, builder_vars>>
    \/ /\ Running /\ poll_ready /\ InBlock
       /\ \E tx \in TxsA : CallDeliverTx(tx)
       /\ UNCHANGED <<replay, builder_vars>>
    \/ Running /\ poll_ready /\ InBlock /\ EndBlock(CommitsCalled + 1)
               /\ UNCHANGED other_vars
    \/ Running /\ poll_ready /\ BlockEnded /\ CallCommit
               /\ UNCHANGED <<replay, builder_vars>>
    \/ /\ ~aborted
       /\ \E f \in in_flight : Complete(f)
       /\ UNCHANGED <<replay, builder_vars>>

SpecAsync == Init /\ [][NextA]_vars

\* As SpecAsync, with the futures of check_tx polled step by step: between two
\* steps of one future the executor may poll any other future, and the server may
\* call the service if it is ready.
MaxCommitsM == 1
TxsM ==
    {Transaction(TRUE, nfs, <<>>, Root(note_commitment_tree)) :
        nfs \in {<<1>>, <<1, 2>>, <<2, 1>>}}

NextM ==
    \/ /\ ~initialized /\ ~aborted /\ poll_ready
       /\ \E app_state \in AppStates : \E notes \in NoteSeqs :
             CallInitChain(app_state, notes)
       /\ UNCHANGED <<replay, builder_vars>>
    \/ ~aborted /\ poll_ready /\ CallInfo /\ UNCHANGED <<replay, builder_vars>>
    \/ Running /\ poll_ready /\ pending_block = None /\ CommitsCalled < MaxCommitsM
               /\ BeginBlock /\ UNCHANGED other_vars
    \/ /\ Running /\ poll_ready
       /\ \E kind \in {"New", "Recheck"} : \E tx \in TxsM : SubmitCheckTx(kind, tx)
       /\ UNCHANGED <<replay, builder_vars>>
    \/ /\ ~aborted
       /\ \E f \in in_flight : StepCheckTx(f)
       /\ UNCHANGED <<replay, builder_vars>>
    \/ /\ Running /\ poll_ready /\ InBlock
       /\ \E tx \in TxsM : CallDeliverTx(tx)
       /\ UNCHANGED <<replay, builder_vars>>
    \/ Running /\ poll_ready /\ InBlock /\ EndBlock(CommitsCalled + 1)
               /\ UNCHANGED other_vars
    \/ Running /\ poll_ready /\ BlockEnded /\ CallCommit
               /\ UNCHANGED <<replay, builder_vars>>
    \/ /\ ~aborted
       /\ \E f \in in_flight : f.req # "CheckTx" /\ Complete(f)
       /\ UNCHANGED <<replay, builder_vars>>

SpecMutex == Init /\ [][NextM]_vars

\* Two runs of the node on the same consensus requests.  The first run is
\* recorded: every consensus request with its response code and the committed tree,
\* recent anchors and nullifiers table it left.  Then a second node is constructed
\* on an empty store and is sent the recorded consensus requests, in order, with
\* CheckTx requests of its own in between.
TxsT ==
    {Transaction(TRUE, <<1>>, <<>>, Root(note_commitment_tree)),
     Transaction(TRUE, <<2>>, <<1>>, Root(note_commitment_tree))}

\* what a run has committed
Committed == <<note_commitment_tree, recent_anchors, db_nullifiers>>

\* a recorded consensus request: its arguments, the code of its response, the
\* committed state after it, and whether the mempool-nullifier set held a
\* nullifier of its transaction
Entry(req, genesis, tx, height) ==
    [req |-> req, genesis |-> genesis, tx |-> tx, height |-> height,
     code |-> rsp'.code, committed |-> Committed',
     held |-> tx # None /\ Range(tx[1].spent_nullifiers) \cap mempool_nullifiers # {}]

RECURSIVE TrailingDelivers(_)
\* the DeliverTx requests recorded since the last BeginBlock
TrailingDelivers(script) ==
    IF script = <<>> \/ script[Len(script)].req # "DeliverTx" THEN 0
    ELSE 1 + TrailingDelivers(SubSeq(script, 1, Len(script) - 1))

Record(entry) ==
    /\ replay.phase = "record"
    /\ entry.req = "BeginBlock" => commits < MaxCommitsT
    /\ entry.req = "DeliverTx" => TrailingDelivers(replay.script) < MaxDeliverT
    /\ replay' = [replay EXCEPT !.script = Append(@, entry)]

\* the next recorded request, when the second run has one left to handle
Replaying == replay.phase = "replay" /\ replay.pos <= Len(replay.script)
Recorded == replay.script[replay.pos]
Advance == replay' = [replay EXCEPT !.pos = @ + 1]

\* the second node: App::new on an empty store
Restart ==
    /\ replay.phase = "record" /\ pending_block = None /\ commits >= 1
    /\ replay' = [replay EXCEPT !.phase = "replay"]
    /\ initialized' = FALSE
    /\ aborted' = FALSE
    /\ note_commitment_tree' = <<>>
    /\ recent_anchors' = <<>>
    /\ mempool_nullifiers' = {}
    /\ pending_block' = None
    /\ epoch_duration' = 1
    /\ db_nullifiers' = <<>>
    /\ rsp' = Response("", 0, "")
    /\ commits' = 0
    /\ anchor_log' = <<>>
    /\ block_notes' = <<>>
    /\ block_nullifiers' = {}
    /\ block_mempool' = {}
    /\ spent_committed' = {}
    /\ reserved' = {}
    /\ new_epoch' = FALSE
    /\ genesis_request' = None
    /\ db_genesis_configuration' = None
    /\ db_validators' = None
    /\ committed_block' = None

NextT ==
    \/ /\ ~initialized /\ ~aborted
       /\ \E app_state \in AppStates : \E notes \in NoteSeqs :
             /\ InitChain(app_state, notes)
             /\ \/ Record(Entry("InitChain", Some(<<app_state, notes>>), None, 0))
                \/ /\ Replaying /\ Recorded.req = "InitChain"
                   /\ Recorded.genesis = Some(<<app_state, notes>>)
                   /\ Advance
       /\ UNCHANGED <<in_flight, builder_vars>>
    \/ /\ Running /\ pending_block = None /\ BeginBlock
       /\ \/ Record(Entry("BeginBlock", None, None, 0))
          \/ Replaying /\ Recorded.req = "BeginBlock" /\ Advance
       /\ UNCHANGED <<in_flight, builder_vars>>
    \/ /\ Running
       /\ \E kind \in {"New", "Recheck"} : \E tx \in TxsT : CheckTx(kind, tx)
       /\ UNCHANGED other_vars
    \/ /\ Running /\ InBlock
       /\ \E tx \in TxsT :
             /\ Fits(tx) /\ DeliverTx(tx)
             /\ \/ Record(Entry("DeliverTx", None, Some(tx), 0))
                \/ Replaying /\ Recorded.req = "DeliverTx" /\ Recorded.tx = Some(tx)
                             /\ Advance
       /\ UNCHANGED <<in_flight, builder_vars>>
    \/ /\ Running /\ InBlock /\ EndBlock(commits + 1)
       /\ \/ Record(Entry("EndBlock", None, None, commits + 1))
          \/ Replaying /\ Recorded.req = "EndBlock" /\ Advance
       /\ UNCHANGED <<in_flight, builder_vars>>
    \/ /\ Running /\ BlockEnded /\ Commit
       /\ \/ Record(Entry("Commit", None, None, 0))
          \/ Replaying /\ Recorded.req = "Commit" /\ Advance
       /\ UNCHANGED <<in_flight, builder_vars>>
    \/ Restart /\ UNCHANGED <<in_flight, builder_vars>>

SpecTwin == Init /\ [][NextT]_vars

\* Requests in any order after InitChain, EndBlock with any height, genesis with any
\* epoch duration: what the handlers do when the engine does not keep to the block
\* sequence.  A run ends when a handler panics.
TxsO ==
    {Garbage,
     Transaction(FALSE, <<1>>, <<>>, Root(note_commitment_tree)),
     Transaction(TRUE, <<1>>, <<>>, Root(note_commitment_tree)),
     Transaction(TRUE, <<>>, <<1>>, Root(note_commitment_tree)),
     Transaction(TRUE, <<>>, <<>>, Root(<<>>))}
Heights == 0..MaxHeight
AppStatesO == {AppState(<<1>>, d) : d \in 1..MaxDuration}

NextO ==
    \/ /\ ~initialized /\ ~aborted
       /\ \E app_state \in AppStatesO : \E notes \in NoteSeqs : InitChain(app_state, notes)
       /\ UNCHANGED other_vars
    \/ ~aborted /\ Info /\ UNCHANGED other_vars
    \/ ~aborted /\ Query /\ UNCHANGED other_vars
    \/ Running /\ BeginBlock /\ UNCHANGED other_vars
    \/ /\ Running
       /\ \E kind \in {"New", "Recheck"} : \E tx \in TxsO : CheckTx(kind, tx)
       /\ UNCHANGED other_vars
    \/ /\ Running
       /\ \E tx \in TxsO : Fits(tx) /\ DeliverTx(tx)
       /\ UNCHANGED other_vars
    \/ /\ Running
       /\ \E height \in Heights : EndBlock(height)
       /\ UNCHANGED other_vars
    \/ Running /\ commits < MaxCommitsO /\ Commit /\ UNCHANGED other_vars

SpecAnyOrder == Init /\ [][NextO]_vars

\* InitChain with any request and any failure of the state store, then empty
\* blocks; Info and Query at any time.
MaxAllocations == 2
MaxValidators == 2
MaxCommitsG == 1
SeqsUpTo(S, n) == UNION {[1..k -> S] : k \in 0..n}
GenesisAllocations ==
    {Allocation(1, TRUE, "upenumbra"), Allocation(2, TRUE, "X"),
     Allocation(1, TRUE, "X"), Allocation(2, FALSE, "upenumbra"),
     Allocation(1, TRUE, "pen")}
GenesisValidators == {Validator(k, p) : k \in 1..2, p \in 1..2}
RequestValidators == {<<>>, <<Validator(1, 1)>>, <<Validator(3, 3)>>}
GenesisAppStates ==
    {GenesisAppState(allocations, validators, 2) :
        allocations \in SeqsUpTo(GenesisAllocations, MaxAllocations),
        validators \in SeqsUpTo(GenesisValidators, MaxValidators)}
InitChainRequests ==
    {Request_InitChain(bytes, validators) :
        bytes \in {Unparseable} \cup {Serialized(a) : a \in GenesisAppStates},
        validators \in RequestValidators}
Faults == {"none", "finalize", "commit_block", "app_hash", "set_genesis_configuration",
           "set_initial_validators", "app_hash_2"}

\* the orders in which the genesis transaction may list the notes of the allocations
OutputOrders(app_state) ==
    {notes \in [1..Len(app_state.allocations) -> Range(AllocationNotes(app_state))] :
        ListsAllocations(notes, app_state)}

NextG ==
    \/ /\ ~initialized /\ ~aborted
       /\ \E init_chain \in InitChainRequests : \E fault \in Faults :
             \E notes \in OutputOrders(init_chain.app_state_bytes.app_state) :
                InitGenesis(init_chain, notes, fault)
       /\ UNCHANGED other_vars
    \/ ~aborted /\ Info /\ UNCHANGED other_vars
    \/ ~aborted /\ Query /\ UNCHANGED other_vars
    \/ Running /\ pending_block = None /\ commits < MaxCommitsG /\ BeginBlock
               /\ UNCHANGED other_vars
    \/ Running /\ InBlock /\ EndBlock(commits + 1) /\ UNCHANGED other_vars
    \/ Running /\ BlockEnded /\ Commit /\ UNCHANGED other_vars

SpecGenesis == Init /\ [][NextG]_vars

\* A client chaining calls on one builder, then finalizing it.
Values == {Value(1, "upenumbra"), Value(2, "upenumbra"), Value(1, "X")}
Blindings == {1, FieldOrder - 1}
Fees == {0, 1}

NextB ==
    \/ /\ built = None /\ Len(builder.spends) < MaxSpends
       /\ \E r \in Blindings : \E v \in Values : AddSpend(r, 1, 1, [value |-> v])
    \/ /\ built = None /\ Len(builder.outputs) < MaxOutputs
       /\ \E r \in Blindings : \E v \in Values : AddOutput(r, v)
    \/ /\ built = None /\ Len(fees_set) < MaxFeeCalls
       /\ \E fee \in Fees : SetFee(fee)
    \/ built = None /\ SetChainId("penumbra")
    \/ /\ built = None
       /\ \E ps \in ShuffleOutcomes(Len(builder.spends)) :
             \E po \in ShuffleOutcomes(Len(builder.outputs)) : Finalize(ps, po)

SpecBuilder == Init /\ [][NextB]_vars

\* A client spending notes of different spend keys, with different randomizers, and
\* setting an expiry height or not.
SpendKeys == {1, 2}
Randomizers == {1, 2}
ExpiryHeights == {0, 5}

NextS ==
    \/ /\ built = None /\ Len(builder.spends) < MaxSpendsS
       /\ \E r \in Randomizers : \E sk \in SpendKeys :
             AddSpend(1, r, sk, [value |-> Value(1, "upenumbra")])
    \/ /\ built = None /\ Len(builder.outputs) < MaxOutputsS
       /\ AddOutput(1, Value(1, "upenumbra"))
    \/ /\ built = None /\ Len(fees_set) < MaxFeeCallsS
       /\ \E fee \in Fees : SetFee(fee)
    \/ built = None /\ (\E h \in ExpiryHeights : SetExpiryHeight(h))
    \/ built = None /\ SetChainId("penumbra")
    \/ /\ built = None
       /\ \E ps \in ShuffleOutcomes(Len(builder.spends)) :
             \E po \in ShuffleOutcomes(Len(builder.outputs)) : Finalize(ps, po)

SpecSigned == Init /\ [][NextS]_vars

---------------------------------------------------------------------------
\* Properties.

IsPrefix(s, t) == Len(s) <= Len(t) /\ SubSeq(t, 1, Len(s)) = s
Min(a, b) == IF a <= b THEN a ELSE b

\* the step is CheckTx of tx, of either kind
IsCheckTx(tx) == \E kind \in {"New", "Recheck"} : CheckTx(kind, tx)

\* C1: a DeliverTx of a transaction that reveals a nullifier of a transaction
\* delivered earlier, in this block or in a committed block, is rejected with
\* code 1; and the nullifiers table never holds a nullifier twice.
C1_NoDoubleSpend ==
    /\ [](\A i, j \in 1..Len(db_nullifiers) : db_nullifiers[i] = db_nullifiers[j] => i = j)
    /\ [][rsp'.req = "DeliverTx" =>
            \A tx \in Txs :
                (/\ Range(tx.spent_nullifiers) \cap (block_nullifiers \cup spent_committed) # {}
                 /\ DeliverTx(tx))
                => rsp'.code = 1]_vars

\* a DeliverTx has been rejected for a nullifier committed in an earlier block
C1_Witness ==
    /\ rsp.req = "DeliverTx" /\ rsp.code = 1 /\ rsp.log = LogDatabase
    /\ commits >= 1 /\ spent_committed # {}

\* C2 as stated: a CheckTx(New) of a transaction revealing a reserved nullifier
\* (admitted by an earlier CheckTx(New), in no block committed since) returns code 1
\* with the already-present-in-mempool log.
C2_Original ==
    [][rsp'.req = "CheckTx" =>
          \A tx \in Txs :
              (Range(tx.spent_nullifiers) \cap reserved # {} /\ CheckTx("New", tx))
              => (rsp'.code = 1 /\ rsp'.log = LogMempool)]_vars

\* C2, amended: such a CheckTx(New) returns code 1, and its log is the
\* already-present-in-mempool message whenever the transaction decodes and passes
\* stateless verification.
C2_MempoolNonReplay ==
    [][rsp'.req = "CheckTx" =>
          \A tx \in Txs :
              (Range(tx.spent_nullifiers) \cap reserved # {} /\ CheckTx("New", tx))
              => (/\ rsp'.code = 1
                  /\ (tx.decodes /\ tx.stateless_ok) => rsp'.log = LogMempool)]_vars

\* a CheckTx has been rejected for the mempool while a nullifier was reserved
C2_Witness ==
    rsp.req = "CheckTx" /\ rsp.code = 1 /\ rsp.log = LogMempool /\ reserved # {}

\* C3: a CheckTx that returns a non-zero code leaves the mempool-nullifier set, the
\* tree, the recent anchors and the pending block as they were.
C3_CheckTxFailureFrame ==
    [][(rsp'.req = "CheckTx" /\ rsp'.code # 0) =>
          UNCHANGED <<mempool_nullifiers, note_commitment_tree, recent_anchors,
                      pending_block>>]_vars

\* C4: a DeliverTx that returns a non-zero code leaves the pending block as it was.
C4_DeliverTxFailureFrame ==
    [][(rsp'.req = "DeliverTx" /\ rsp'.code = 1) => pending_block' = pending_block]_vars

\* a DeliverTx has been rejected for its anchor in a block that already holds notes
C4_Witness ==
    /\ rsp.req = "DeliverTx" /\ rsp.code = 1 /\ rsp.log = LogAnchor
    /\ pending_block # None /\ block_notes # <<>>

\* C5: a nullifier that was in the mempool set at BeginBlock and was revealed by a
\* transaction delivered in the block is not in the mempool set after the Commit.
C5_MempoolEviction ==
    [][commits' = commits + 1 =>
          (block_mempool \cap block_nullifiers) \cap mempool_nullifiers' = {}]_vars

\* a Commit has just evicted a nullifier that was in the mempool set at BeginBlock
C5_Witness ==
    /\ rsp.req = "Commit"
    /\ block_mempool \cap block_nullifiers # {}
    /\ (block_mempool \cap block_nullifiers) \cap mempool_nullifiers = {}

\* C6: never more than NUM_RECENT_ANCHORS anchors; after InitChain and N Commit
\* requests there are min(N+1, NUM_RECENT_ANCHORS) of them, the roots of the latest
\* commits, newest first.
C6_AnchorWindow ==
    /\ Len(recent_anchors) <= NUM_RECENT_ANCHORS
    /\ initialized =>
         /\ Len(recent_anchors) = Min(commits + 1, NUM_RECENT_ANCHORS)
         /\ \A i \in 1..Len(recent_anchors) :
               recent_anchors[i] = anchor_log[Len(anchor_log) + 1 - i]
         /\ recent_anchors[1] = Root(note_commitment_tree)

\* the window is full and has dropped an anchor
C6_Witness ==
    commits = NUM_RECENT_ANCHORS + 1 /\ Len(recent_anchors) = NUM_RECENT_ANCHORS

\* a Commit pushed root r and at least NUM_RECENT_ANCHORS Commits followed it
PushedLongAgo(r) ==
    \E k \in 1..Len(anchor_log) :
        anchor_log[k] = r /\ Len(anchor_log) - k >= NUM_RECENT_ANCHORS

\* r has been pushed, and at least NUM_RECENT_ANCHORS Commits followed the last
\* Commit that pushed it
LastPushedLongAgo(r) ==
    /\ \E k \in 1..Len(anchor_log) : anchor_log[k] = r
    /\ \A k \in 1..Len(anchor_log) :
          anchor_log[k] = r => Len(anchor_log) - k >= NUM_RECENT_ANCHORS

\* C7 as stated: a CheckTx or DeliverTx of a transaction citing a root that some
\* Commit pushed 64 or more Commits ago is rejected.
C7_Original ==
    [][rsp'.req \in {"CheckTx", "DeliverTx"} =>
          \A tx \in TxsW :
              (PushedLongAgo(tx.anchor) /\ (IsCheckTx(tx) \/ DeliverTx(tx)))
              => rsp'.code = 1]_vars

\* C7, amended: a CheckTx or DeliverTx of a transaction citing a root is rejected
\* once 64 or more Commits have followed the last Commit that pushed that root.
C7_AnchorRetires ==
    [][rsp'.req \in {"CheckTx", "DeliverTx"} =>
          \A tx \in TxsW :
              (LastPushedLongAgo(tx.anchor) /\ (IsCheckTx(tx) \/ DeliverTx(tx)))
              => rsp'.code = 1]_vars

\* a CheckTx has been rejected for its anchor when the retired genesis root was the
\* only root offered that is outside the window
C7_Witness ==
    /\ rsp.req = "CheckTx" /\ rsp.code = 1 /\ rsp.log = LogAnchor
    /\ LastPushedLongAgo(anchor_log[1])
    /\ KnownRoots \ {Root(<<>>), anchor_log[1]} \subseteq Range(recent_anchors)

\* C8: a CheckTx or DeliverTx that returns code 0 was for a transaction whose
\* anchor is in recent_anchors as the request found it, and one for a transaction
\* citing a root outside it returns code 1.
C8_AnchorInWindow ==
    [][rsp'.req \in {"CheckTx", "DeliverTx"} =>
          \A tx \in TxsW :
              (IsCheckTx(tx) \/ DeliverTx(tx))
              => /\ rsp'.code = 0 => tx.anchor \in Range(recent_anchors)
                 /\ tx.anchor \notin Range(recent_anchors) => rsp'.code = 1]_vars

\* a transaction has been delivered after the window dropped an anchor
C8_Witness ==
    /\ rsp.req = "DeliverTx" /\ rsp.code = 0
    /\ Len(anchor_log) > NUM_RECENT_ANCHORS
    /\ anchor_log[1] \notin Range(recent_anchors)

C10_AppendOnly ==
    [][/\ IsPrefix(note_commitment_tree, note_commitment_tree')
       /\ note_commitment_tree' # note_commitment_tree
             => rsp'.req \in {"Commit", "InitChain"}]_vars

\* two commits have each grown the tree
C10_Witness ==
    /\ rsp.req = "Commit" /\ Len(anchor_log) = 3
    /\ anchor_log[2] # anchor_log[1] /\ anchor_log[3] # anchor_log[2]

\* the spent nullifiers of the pending block, if there is one
PendingSpent == IF pending_block = None THEN {} ELSE pending_block[1].spent_nullifiers

\* C11: a transaction that CheckTx admits or DeliverTx delivers reveals no
\* nullifier that is in the committed set or in the pending block's spent set, nor,
\* for a CheckTx of kind New, in the mempool-nullifier set.
C11_NoNullifierTwice ==
    [][\A f \in in_flight :
          (f.req \in {"CheckTx", "DeliverTx"} /\ Complete(f) /\ rsp'.code = 0) =>
              LET revealed == Range(f.tx[1].spent_nullifiers)
              IN /\ revealed \cap Range(db_nullifiers) = {}
                 /\ revealed \cap PendingSpent = {}
                 /\ (f.req = "CheckTx" /\ f.kind = "New")
                       => revealed \cap mempool_nullifiers = {}]_vars

\* C12: the second run, sent the consensus requests of the first with CheckTx
\* requests of its own, answers every consensus request with the code the first
\* run answered, and after every Commit (and InitChain) has the committed tree,
\* recent anchors and nullifiers table the first run had.
C12_DeliverTxIgnoresCheckTx ==
    [][(Replaying /\ replay'.pos = replay.pos + 1) =>
          /\ rsp'.req = Recorded.req
          /\ rsp'.code = Recorded.code
          /\ Recorded.req \in {"Commit", "InitChain"} => Committed' = Recorded.committed]_vars

\* the second run has delivered a transaction in its second block, as the first
\* run did; the first run held a nullifier of the transaction in its
\* mempool-nullifier set, the second run holds none of them
C12_Witness ==
    /\ replay.phase = "replay" /\ replay.pos > 1 /\ replay.pos <= Len(replay.script) + 1
    /\ LET e == replay.script[replay.pos - 1]
       IN /\ e.req = "DeliverTx" /\ e.code = 0 /\ rsp.req = "DeliverTx" /\ rsp.code = 0
          /\ e.held
          /\ Range(e.tx[1].spent_nullifiers) \cap mempool_nullifiers = {}
          /\ commits = 1

\* the requests that change the state of the application
Mutating == {"CheckTx", "DeliverTx", "Commit", "InitChain"}

\* C13: while the future of a CheckTx, DeliverTx, Commit or InitChain is in
\* flight the service is not ready; the futures of Info and Query do not keep it
\* from being ready.
C13_MutatingSequenced ==
    /\ (\E f \in in_flight : f.req \in Mutating) => ~poll_ready
    /\ (\A f \in in_flight : f.req \notin Mutating) => poll_ready

\* C14: while a block is open or a CheckTx or DeliverTx is in flight, no Commit is
\* still persisting its block, and every nullifier of the committed blocks is in
\* the nullifiers table.
C14_CommitBeforeNextBlock ==
    (pending_block # None \/ \E f \in in_flight : f.req \in {"CheckTx", "DeliverTx"})
        => /\ ~\E f \in in_flight : f.req = "Commit"
           /\ spent_committed \subseteq Range(db_nullifiers)

\* a DeliverTx in the second block has been rejected for a nullifier that the first
\* block committed
C14_Witness ==
    /\ rsp.req = "DeliverTx" /\ rsp.code = 1 /\ rsp.log = LogDatabase
    /\ commits = 1 /\ pending_block # None /\ spent_committed # {}

\* deliver_tx gets as far as the pending block: the transaction decodes, passes
\* stateless verification, and its first nullifier is not committed or, having no
\* nullifier, it cites a recent anchor
ReachesPendingBlock(tx) ==
    /\ tx.decodes /\ tx.stateless_ok
    /\ IF tx.spent_nullifiers # <<>>
       THEN ~state_nullifier(tx.spent_nullifiers[1])
       ELSE verify_stateful(tx, recent_anchors)

\* the parts of C15 about BeginBlock, Commit, EndBlock and the other requests
PendingBlockLifetime ==
    /\ rsp'.req = "BeginBlock" => pending_block' # None
    /\ (rsp'.req = "Commit" /\ rsp'.code = 0) => pending_block' = None
    /\ ((pending_block = None) # (pending_block' = None))
          => rsp'.req \in {"BeginBlock", "Commit"}
    /\ (pending_block = None /\ rsp'.req \in {"EndBlock", "Commit"})
          => (aborted' /\ rsp'.code = -1)

\* C15 as stated: BeginBlock sets the pending block, Commit takes it, no other
\* request creates or removes it, and a DeliverTx, EndBlock or Commit handled
\* while it is absent aborts.
C15_Original ==
    [][/\ PendingBlockLifetime
       /\ (pending_block = None /\ rsp'.req = "DeliverTx")
             => (aborted' /\ rsp'.code = -1)]_vars

\* C15, amended: as stated for BeginBlock, Commit, EndBlock and the other requests;
\* a DeliverTx handled while the pending block is absent never succeeds and
\* creates none: it aborts when it gets as far as the pending block, and is
\* rejected with code 1 when the transaction fails an earlier test.
C15_PendingBlockLifetime ==
    [][/\ PendingBlockLifetime
       /\ (pending_block = None /\ rsp'.req = "DeliverTx") =>
             \A tx \in TxsO :
                 DeliverTx(tx) =>
                     IF ReachesPendingBlock(tx)
                     THEN aborted' /\ rsp'.code = -1
                     ELSE ~aborted' /\ rsp'.code = 1]_vars

\* a DeliverTx handled between blocks has aborted the application
C15_Witness ==
    rsp.req = "DeliverTx" /\ rsp.code = -1 /\ aborted /\ pending_block = None
      /\ commits >= 1

\* C16: EndBlock(h) on a pending block of epoch duration d sets its height to h and
\* its epoch to h div d, whose start height is that epoch times d, and takes the
\* new-epoch branch exactly when h mod d = 0.
C16_EpochDerivation ==
    [][rsp'.req = "EndBlock" =>
          \A h \in Heights :
              (pending_block # None /\ pending_block[1].epoch_duration >= 1
                 /\ EndBlock(h)) =>
                  LET d == pending_block[1].epoch_duration
                      pb == pending_block'[1]
                  IN /\ pb.height = Some(h)
                     /\ pb.epoch # None
                     /\ pb.epoch[1].index * d <= h /\ h < (pb.epoch[1].index + 1) * d
                     /\ Epoch_start_height(pb.epoch[1]) = pb.epoch[1].index * d
                     /\ new_epoch' = (h % d = 0)]_vars

\* EndBlock has taken the new-epoch branch at a height that is neither 0 nor the
\* epoch duration, in an epoch longer than one block
C16_Witness ==
    /\ rsp.req = "EndBlock" /\ new_epoch /\ pending_block # None
    /\ pending_block[1].epoch_duration > 1
    /\ pending_block[1].height[1] > pending_block[1].epoch_duration

\* the bodies of the spends pushed on a builder
Bodies(spends) == [i \in 1..Len(spends) |-> spends[i].body]

\* the total amount of asset a in the notes of these spend or output bodies
RECURSIVE TotalAmount(_, _)
TotalAmount(bodies, a) ==
    IF bodies = <<>> THEN 0
    ELSE (IF Head(bodies).note.value.asset_id = a THEN Head(bodies).note.value.amount ELSE 0)
         + TotalAmount(Tail(bodies), a)

\* the sum of the value commitments of the actions of this kind
RECURSIVE SumCommitments(_, _)
SumCommitments(actions, kind) ==
    IF actions = <<>> THEN Identity
    ELSE ElementAdd(IF Head(actions).kind = kind
                    THEN Head(actions).body.value_commitment ELSE Identity,
                    SumCommitments(Tail(actions), kind))

\* how many times x occurs in the sequence s
Count(s, x) == Cardinality({i \in 1..Len(s) : s[i] = x})

\* C17: finalize returns NoChainID if no chain id was set, otherwise FeeNotSet if
\* no fee was set, otherwise NonZeroValueBalance if the value balance is not the
\* identity, and a transaction in every other case; an error carries no transaction.
C17_FinalizeErrors ==
    built # None =>
        LET r == built[1]
        IN /\ builder.chain_id = None => (~r.ok /\ r.err = "NoChainID")
           /\ (builder.chain_id # None /\ builder.fee = None)
                 => (~r.ok /\ r.err = "FeeNotSet")
           /\ (builder.chain_id # None /\ builder.fee # None
                  /\ builder.value_balance # Identity)
                 => (~r.ok /\ r.err = "NonZeroValueBalance")
           /\ (builder.chain_id # None /\ builder.fee # None
                  /\ builder.value_balance = Identity)
                 => (r.ok /\ r.transaction # <<>>)
           /\ ~r.ok => r.transaction = <<>>

\* finalize has returned NoChainID for a builder that also has no fee and a non-zero
\* value balance
C17_Witness ==
    /\ built # None /\ built[1].err = "NoChainID"
    /\ builder.fee = None /\ builder.value_balance # Identity

\* C18: on a builder with chain id and fee set, finalize succeeds only if for every
\* asset the total of the spends equals the total of the outputs plus the fee (in
\* the fee asset), and returns NonZeroValueBalance otherwise.
C18_ValueConservation ==
    (built # None /\ builder.chain_id # None /\ builder.fee # None) =>
        LET balanced ==
                \A a \in Assets :
                    TotalAmount(Bodies(builder.spends), a) =
                        TotalAmount(builder.outputs, a)
                        + (IF a = "upenumbra" THEN builder.fee[1] ELSE 0)
        IN /\ built[1].ok => balanced
           /\ ~balanced => built[1].err = "NonZeroValueBalance"

\* C19: the builder always has value_commitments = value_balance +
\* synthetic_blinding_factor * H; in a built transaction the spend commitments minus
\* the output commitments minus the fee commitment equal synthetic_blinding * H; and
\* the assertion of compute_binding_sig never fails.
C19_BindingBalance ==
    /\ builder.value_commitments =
          ElementAdd(builder.value_balance,
                     ScalarMul(builder.synthetic_blinding_factor, "H"))
    /\ (built # None /\ built[1].ok) =>
          LET tx == built[1].transaction
          IN ElementSub(ElementSub(SumCommitments(tx.actions, "Spend"),
                                   SumCommitments(tx.actions, "Output")),
                        ScalarMul(Fr_from(tx.fee), "upenumbra"))
             = ScalarMul(tx.binding_key, "H")
    /\ built # None => built[1].err # "panic"

\* the first and the last part of C19 alone
C19_BuilderInvariant ==
    /\ builder.value_commitments =
          ElementAdd(builder.value_balance,
                     ScalarMul(builder.synthetic_blinding_factor, "H"))
    /\ built # None => built[1].err # "panic"

\* C20: the actions of a built transaction are the added spends, each once, in
\* some order, followed by the added outputs, each once, in some order.
C20_SpendsThenOutputs ==
    (built # None /\ built[1].ok) =>
        LET actions == built[1].transaction.actions
            ns == Len(builder.spends)
            no == Len(builder.outputs)
        IN /\ Len(actions) = ns + no
           /\ \A i \in 1..ns : actions[i].kind = "Spend"
           /\ \A i \in (ns + 1)..(ns + no) : actions[i].kind = "Output"
           /\ \A i \in 1..ns :
                 Count(Bodies(builder.spends), actions[i].body)
                   = Count([j \in 1..ns |-> actions[j].body], actions[i].body)
           /\ \A i \in 1..no :
                 Count(builder.outputs, actions[ns + i].body)
                   = Count([j \in 1..no |-> actions[ns + j].body], actions[ns + i].body)

\* a transaction has been built whose two spends and two outputs both come in the
\* opposite of the order they were added in
C20_Witness ==
    /\ built # None /\ built[1].ok
    /\ Len(builder.spends) = 2 /\ Len(builder.outputs) = 2
    /\ builder.spends[1] # builder.spends[2]
    /\ builder.outputs[1] # builder.outputs[2]
    /\ built[1].transaction.actions[1].body = builder.spends[2].body
    /\ built[1].transaction.actions[3].body = builder.outputs[2]

\* C21: finalize returns a transaction only for a builder on which both
\* set_expiry_height and set_chain_id have been called.
C21_SettersRequired ==
    (built # None /\ built[1].ok) =>
        (builder.expiry_height # None /\ builder.chain_id # None)

\* the body of a built transaction with the signatures of its spends zeroed
ZeroedBody(tx) ==
    [actions |-> [i \in 1..Len(tx.actions) |->
                    IF tx.actions[i].kind = "Spend"
                    THEN [tx.actions[i] EXCEPT !.auth_sig = ZeroSignature]
                    ELSE tx.actions[i]],
     expiry_height |-> tx.expiry_height,
     chain_id |-> tx.chain_id,
     fee |-> tx.fee]

\* C29: in a built transaction with n spends, each of the first n actions is a
\* Spend whose body is the body of a spend added and whose auth_sig is the
\* signature that the randomized key pushed with that body makes over the sighash
\* of the transaction body with every auth_sig zero; finalize never reaches the
\* unreachable branch of its signing loop.
C29_SpendsSigned ==
    /\ built # None => built[1].err # "unreachable"
    /\ (built # None /\ built[1].ok) =>
          LET tx == built[1].transaction
          IN \A i \in 1..Len(builder.spends) :
                /\ tx.actions[i].kind = "Spend"
                /\ \E j \in 1..Len(builder.spends) :
                      /\ builder.spends[j].body = tx.actions[i].body
                      /\ tx.actions[i].auth_sig =
                            Sign(builder.spends[j].rsk, sighash(ZeroedBody(tx)))
                /\ VerificationKey(tx.actions[i].auth_sig[1]) = tx.actions[i].body.rk

\* a transaction has been built whose two spends, of different keys, come in the
\* opposite of the order they were added in, followed by an output
C29_Witness ==
    /\ built # None /\ built[1].ok
    /\ Len(builder.spends) = 2 /\ Len(builder.outputs) = 1
    /\ builder.spends[1].rsk # builder.spends[2].rsk
    /\ built[1].transaction.actions[1].body = builder.spends[2].body
    /\ built[1].transaction.actions[1].auth_sig[1] = builder.spends[2].rsk

\* the messages of the checks that tx fails at the first stage it fails, in the
\* state the request finds: decoding, stateless verification, the nullifier
\* lookups (mempool set for a CheckTx of kind New, committed store, pending block
\* for a DeliverTx), stateful verification; empty when every check passes
Failure(req, kind, tx) ==
    IF ~tx.decodes THEN {LogDecode}
    ELSE IF ~tx.stateless_ok THEN {LogStateless}
    ELSE LET nfs == Range(tx.spent_nullifiers)
             replayed ==
                 (IF req = "CheckTx" /\ kind = "New" /\ nfs \cap mempool_nullifiers # {}
                  THEN {LogMempool} ELSE {})
                 \cup (IF nfs \cap Range(db_nullifiers) # {} THEN {LogDatabase} ELSE {})
                 \cup (IF req = "DeliverTx" /\ nfs \cap PendingSpent # {}
                       THEN {LogSpent} ELSE {})
         IN IF replayed # {} THEN replayed
            ELSE IF tx.anchor \notin Range(recent_anchors) THEN {LogAnchor}
            ELSE {}

\* C25: a CheckTx or DeliverTx is answered with code 0 and an empty log when the
\* transaction passes every check, and with code 1 and the message of a check it
\* fails when it fails one; either way a response is returned.
C25_CodeAndLog ==
    [][/\ rsp'.req \in {"CheckTx", "DeliverTx"} => rsp'.code \in {0, 1}
       /\ rsp'.req = "CheckTx" =>
             \A tx \in Txs : \A kind \in {"New", "Recheck"} :
                 (rsp'.kind = kind /\ CheckTx(kind, tx)) =>
                     LET failed == Failure("CheckTx", kind, tx)
                     IN /\ failed = {} => (rsp'.code = 0 /\ rsp'.log = "")
                        /\ failed # {} => (rsp'.code = 1 /\ rsp'.log \in failed)
       /\ rsp'.req = "DeliverTx" =>
             \A tx \in Txs :
                 DeliverTx(tx) =>
                     LET failed == Failure("DeliverTx", "", tx)
                     IN /\ failed = {} => (rsp'.code = 0 /\ rsp'.log = "")
                        /\ failed # {} => (rsp'.code = 1 /\ rsp'.log \in failed)]_vars

\* a DeliverTx has been rejected with code 1 for a nullifier spent earlier in
\* the block
C25_Witness ==
    /\ rsp.req = "DeliverTx" /\ rsp.code = 1 /\ rsp.log = LogSpent
    /\ pending_block # None /\ block_nullifiers # {}

\* C26: BeginBlock installs a pending block whose working tree is the committed
\* tree, whose notes map, spent-nullifier set and new-assets map are empty, whose
\* height and epoch are unset and whose epoch duration is the configured one; it
\* leaves the committed tree, the recent anchors and the mempool-nullifier set as
\* they were.
C26_FreshPendingBlock ==
    [][rsp'.req = "BeginBlock" =>
          /\ pending_block' # None
          /\ LET pb == pending_block'[1]
             IN /\ pb.note_commitment_tree = note_commitment_tree
                /\ DOMAIN pb.notes = {}
                /\ pb.spent_nullifiers = {}
                /\ DOMAIN pb.new_assets = {}
                /\ pb.height = None
                /\ pb.epoch = None
                /\ pb.epoch_duration = epoch_duration
          /\ UNCHANGED <<note_commitment_tree, recent_anchors, mempool_nullifiers>>]_vars

\* BeginBlock has installed a pending block on a committed tree of two leaves,
\* after a block, while the mempool-nullifier set holds a nullifier
C26_Witness ==
    /\ rsp.req = "BeginBlock" /\ commits >= 1
    /\ Len(note_commitment_tree) >= 2 /\ mempool_nullifiers # {}
    /\ pending_block # None
    /\ pending_block[1].note_commitment_tree = note_commitment_tree

\* C27: a CheckTx of kind Recheck leaves the mempool-nullifier set as it was and,
\* for a transaction that decodes, is rejected exactly when stateless verification
\* fails, a nullifier of the transaction is in the committed store, or its anchor
\* is not among the recent anchors, whatever the mempool set holds.  A CheckTx of
\* kind New tests and inserts in the mempool set before it looks in the committed
\* store: a nullifier found in the mempool set is the error reported even when a
\* nullifier is committed, and when none is found there the nullifiers are
\* inserted before the committed store rejects the transaction.
C27_RecheckSkipsMempool ==
    [][rsp'.req = "CheckTx" =>
          \A tx \in Txs :
              LET nfs == Range(tx.spent_nullifiers)
              IN /\ (rsp'.kind = "Recheck" /\ CheckTx("Recheck", tx)) =>
                       /\ mempool_nullifiers' = mempool_nullifiers
                       /\ tx.decodes =>
                             ((rsp'.code = 1) <=>
                                 \/ ~tx.stateless_ok
                                 \/ nfs \cap Range(db_nullifiers) # {}
                                 \/ tx.anchor \notin Range(recent_anchors))
                       /\ tx.decodes => rsp'.code \in {0, 1}
                 /\ (rsp'.kind = "New" /\ tx.decodes /\ tx.stateless_ok
                       /\ CheckTx("New", tx)) =>
                       /\ nfs \cap mempool_nullifiers # {} => rsp'.log = LogMempool
                       /\ (nfs \cap mempool_nullifiers = {}
                             /\ nfs \cap Range(db_nullifiers) # {})
                            => /\ rsp'.log = LogDatabase
                               /\ mempool_nullifiers' = mempool_nullifiers \cup nfs]_vars

\* a CheckTx of kind Recheck has succeeded for a transaction of which the
\* mempool-nullifier set held a nullifier
C27_Witness ==
    rsp.req = "CheckTx" /\ rsp.kind = "Recheck" /\ rsp.held /\ rsp.code = 0

\* the request of the InitChain handled, the app state it carries and the call
\* that failed while it was handled
GenesisRequest == genesis_request[1].request
GenesisAppStateOf == GenesisRequest.app_state_bytes.app_state
GenesisFault == genesis_request[1].fault
InitChainSucceeded == rsp.req = "InitChain" /\ rsp.code = 0

\* C22: the validator updates of the InitChain response are the validators of the
\* genesis app state: one update per distinct consensus public key, in key order,
\* with the voting power of the validator of that key (the last one listed, when
\* the app state lists several of one key); nothing of them comes from the
\* validators of the request.
C22_ValidatorsFromAppState ==
    InitChainSucceeded =>
        LET vs == GenesisAppStateOf.validators
            keys == {v.tm_pubkey : v \in Range(vs)}
            updates == rsp.validators
        IN /\ {u.pub_key : u \in Range(updates)} = keys
           /\ Len(updates) = Cardinality(keys)
           /\ \A i, j \in 1..Len(updates) : i < j => updates[i].pub_key < updates[j].pub_key
           /\ \A u \in Range(updates) :
                 \E i \in 1..Len(vs) :
                    /\ vs[i].tm_pubkey = u.pub_key
                    /\ vs[i].voting_power = u.power
                    /\ \A j \in (i + 1)..Len(vs) : vs[j].tm_pubkey # u.pub_key

\* InitChain has succeeded on a request whose validator is not one of the app
\* state, and the response carries the two validators of the app state
C22_Witness ==
    /\ InitChainSucceeded
    /\ GenesisRequest.validators = <<Validator(3, 3)>>
    /\ Len(rsp.validators) = 2

\* C23: after a successful InitChain with k >= 1 allocations, a block of height 0
\* has been committed; its tree holds the k note commitments of the allocations
\* and nothing else, the notes map gives each a position in 0..k-1 at which the
\* tree holds it (position 0 for a single allocation), the block's new assets hold
\* the asset id of every allocation, the committed tree is that tree, its root is
\* among the recent anchors, and no pending block remains.
C23_GenesisBlockCommitted ==
    (InitChainSucceeded /\ Len(GenesisAppStateOf.allocations) >= 1) =>
        /\ committed_block # None
        /\ pending_block = None
        /\ LET pb == committed_block[1]
               tree == pb.note_commitment_tree
               k == Len(GenesisAppStateOf.allocations)
           IN /\ pb.height = Some(0)
              /\ ListsAllocations(tree, GenesisAppStateOf)
              /\ DOMAIN pb.notes = Range(AllocationNotes(GenesisAppStateOf))
              /\ \A cm \in DOMAIN pb.notes :
                    pb.notes[cm] \in 0..(k - 1) /\ tree[pb.notes[cm] + 1] = cm
              /\ k = 1 => pb.notes[GenesisAppStateOf.allocations[1].note] = 0
              /\ \A a \in Range(GenesisAppStateOf.allocations) :
                    /\ Denom_id(a.denom) \in DOMAIN pb.new_assets
                    /\ pb.new_assets[Denom_id(a.denom)] = a.denom
              /\ note_commitment_tree = tree
              /\ Root(tree) \in Range(recent_anchors)

\* InitChain has succeeded with two allocations of different notes and assets
C23_Witness ==
    /\ InitChainSucceeded
    /\ Len(GenesisAppStateOf.allocations) = 2
    /\ Cardinality(DOMAIN committed_block[1].notes) = 2
    /\ Cardinality(DOMAIN committed_block[1].new_assets) = 2

\* InitChain was handled and something failed: the app state did not parse, an
\* allocation was not valid, or a call of the builder or of the state store failed
GenesisFailed ==
    /\ genesis_request # None
    /\ GenesisFault # "none" \/ genesis_panics(GenesisRequest, "none")

\* C24: an InitChain during which anything fails aborts the application: the
\* application is aborted from then on, and the request is answered neither with a
\* response nor with an error value.
C24_GenesisErrorsFatal ==
    GenesisFailed =>
        /\ aborted
        /\ rsp.req = "InitChain" /\ rsp.code = -1

\* what add_transaction has done to the pending block old to make it new, for a
\* transaction with these new notes and spent nullifiers: every note is appended,
\* in order; the position recorded for a note is the number of leaves the tree
\* held before its append (before the last append of it, when the transaction
\* lists a commitment twice); the positions recorded before are kept for the other
\* commitments; every spent nullifier is in the spent set
Folded(old, new, new_notes, spent_nullifiers) ==
    LET before == Len(old.note_commitment_tree)
    IN /\ new.note_commitment_tree = old.note_commitment_tree \o new_notes
       /\ DOMAIN new.notes = DOMAIN old.notes \cup Range(new_notes)
       /\ \A i \in 1..Len(new_notes) :
             (\A j \in (i + 1)..Len(new_notes) : new_notes[j] # new_notes[i]) =>
                 /\ new.notes[new_notes[i]] = before + i - 1
                 /\ new.note_commitment_tree[new.notes[new_notes[i]] + 1] = new_notes[i]
       /\ \A cm \in DOMAIN old.notes \ Range(new_notes) : new.notes[cm] = old.notes[cm]
       /\ new.spent_nullifiers = old.spent_nullifiers \cup Range(spent_nullifiers)

\* C28: for every new note of a transaction folded into the pending block,
\* add_transaction records the index of the leaf it has just appended (the number
\* of leaves before the append; 0 for the first leaf of an empty tree), and it adds
\* every spent nullifier of the transaction to the pending block's spent set: in
\* DeliverTx for an accepted transaction, and in InitChain for the genesis
\* transaction, folded into a block that starts from the empty tree.
C28_PositionsRecorded ==
    [][/\ (rsp'.req = "DeliverTx" /\ rsp'.code = 0) =>
             \A tx \in Txs :
                 DeliverTx(tx) =>
                     Folded(pending_block[1], pending_block'[1],
                            tx.new_notes, tx.spent_nullifiers)
       /\ (rsp'.req = "InitChain" /\ rsp'.code = 0) =>
             /\ Folded(PendingBlock_new(<<>>, epoch_duration), committed_block'[1],
                       committed_block'[1].note_commitment_tree, <<>>)
             /\ \A cm \in DOMAIN committed_block'[1].notes :
                   committed_block'[1].note_commitment_tree = <<cm>> =>
                       committed_block'[1].notes[cm] = 0]_vars

\* a transaction with a spend has been delivered into a pending block whose notes
\* map records a position past the first
C28_Witness ==
    /\ rsp.req = "DeliverTx" /\ rsp.code = 0 /\ pending_block # None
    /\ pending_block[1].spent_nullifiers # {}
    /\ \E cm \in DOMAIN pending_block[1].notes : pending_block[1].notes[cm] >= 2

\* the check_tx futures in flight that have tested a nullifier and not yet
\* inserted it
BetweenTestAndInsert == {f \in in_flight : f.req = "CheckTx" /\ f.pc = "insert"}

\* C30: however the futures in flight are interleaved, a CheckTx of kind New is
\* admitted only when none of its nullifiers is held for a CheckTx of kind New
\* admitted before it and not yet committed in a block, so that two requests whose
\* transactions share a nullifier are never both admitted; and although the test
\* and the insert of a request are two acquisitions of the mutex, while a request
\* is between the two nothing else changes the mempool-nullifier set: no other
\* check_tx future and no Commit is in flight or is called.
C30_NoDoubleAdmission ==
    [][/\ \A f \in in_flight :
             (/\ f.req = "CheckTx" /\ f.kind = "New"
              /\ check_tx_step(f).done /\ check_tx_step(f).log = ""
              /\ StepCheckTx(f))
                => Range(f.tx[1].spent_nullifiers) \cap reserved = {}
       /\ \A f \in BetweenTestAndInsert :
             /\ \A g \in in_flight \ {f} : g.req \notin {"CheckTx", "Commit"}
             /\ f \in in_flight' =>
                   /\ mempool_nullifiers' = mempool_nullifiers
                   /\ \A g \in in_flight' \ {f} : g.req \notin {"CheckTx", "Commit"}]_vars

\* a CheckTx of kind New was admitted for a transaction with nullifier 1, and a
\* later one for another transaction with that nullifier has been rejected because
\* the mempool-nullifier set holds it
C30_Witness ==
    /\ rsp.req = "CheckTx" /\ rsp.kind = "New" /\ rsp.log = LogMempool
    /\ 1 \in reserved /\ 2 \notin reserved
    /\ mempool_nullifiers = {1}

\* C31: every nullifier in the mempool-nullifier set is a nullifier of a
\* transaction that a CheckTx of kind New admitted and that no block committed
\* since has spent; so a rejected CheckTx leaves in the set no nullifier that
\* would make a later CheckTx fail.
C31_MempoolHoldsAdmitted == mempool_nullifiers \subseteq reserved

\* C32: the mempool-nullifier set loses nullifiers only in Commit, and then
\* exactly those of the spent set of the pending block it commits: after CheckTx
\* (either kind, any outcome), BeginBlock, EndBlock, Info, Query and InitChain the
\* set contains what it contained, and DeliverTx leaves it as it was.
C32_ShrinksOnlyInCommit ==
    [][/\ ~(mempool_nullifiers \subseteq mempool_nullifiers') =>
             (rsp'.req = "Commit" /\ rsp'.code = 0 /\ pending_block # None)
       /\ (rsp'.req = "Commit" /\ pending_block # None) =>
             mempool_nullifiers' = mempool_nullifiers \ pending_block[1].spent_nullifiers
       /\ rsp'.req = "DeliverTx" => mempool_nullifiers' = mempool_nullifiers]_vars

\* a Commit has removed from the mempool-nullifier set a nullifier that the set
\* held when the block began and that the block spent
C32_Witness ==
    /\ rsp.req = "Commit" /\ rsp.code = 0 /\ committed_block # None
    /\ \E n \in block_mempool \cap committed_block[1].spent_nullifiers :
          n \notin mempool_nullifiers

RECURSIVE TotalFees(_)
\* the sum of the fees passed to set_fee
TotalFees(fees) == IF fees = <<>> THEN 0 ELSE Head(fees) + TotalFees(Tail(fees))

\* C33: the fee of a finalized transaction is the total that the set_fee calls
\* subtracted from the value balance, and for every asset the spends less the
\* outputs less that fee (in the fee asset) are zero, however many times set_fee
\* was called.
C33_FeeIsWhatWasSubtracted ==
    (built # None /\ built[1].ok) =>
        LET tx == built[1].transaction
        IN /\ tx.fee = TotalFees(fees_set)
           /\ \A a \in Assets :
                 TotalAmount(Bodies(builder.spends), a)
                   = TotalAmount(builder.outputs, a)
                     + (IF a = "upenumbra" THEN tx.fee ELSE 0)

\* C34: once a block has been committed, and until the next is, the front of the
\* recent anchors is the root of the application's committed tree, and that tree
\* is the working tree of the pending block that was committed last.
C34_FrontAnchorIsCommittedRoot ==
    committed_block # None =>
        /\ recent_anchors # <<>>
        /\ Head(recent_anchors) = Root(note_commitment_tree)
        /\ note_commitment_tree = committed_block[1].note_commitment_tree

\* a second block has been committed after the genesis block, with notes of its
\* own, and a request has been handled since
C34_Witness ==
    /\ commits >= 1 /\ rsp.req = "CheckTx"
    /\ Len(recent_anchors) >= 2
    /\ Len(note_commitment_tree) >= 2

\* C35: at every point of a block the notes map of the pending block has one entry
\* for each leaf appended to its working tree since BeginBlock, so that the notes
\* persisted at Commit are as many as the leaves the block added, also when two
\* transactions delivered in the block create the same note commitment.
C35_OneNotePerLeaf ==
    pending_block # None =>
        /\ Cardinality(DOMAIN pending_block[1].notes) = Len(block_notes)
        /\ Len(pending_block[1].note_commitment_tree)
              = Len(note_commitment_tree) + Cardinality(DOMAIN pending_block[1].notes)

\* a Commit request is handled in this step: its future is returned, or the
\* application aborts in commit
CommitHandled ==
    \/ \E f \in in_flight' \ in_flight : f.req = "Commit"
    \/ ~aborted /\ aborted' /\ rsp'.req = "Commit"

\* C36: whenever a Commit request is handled, no deliver_tx future holds a clone
\* of the handle of the pending block, so taking the pending block out of its
\* handle does not abort the application: a Commit aborts only when there is no
\* pending block.
C36_CommitTakeNeverFails ==
    [][CommitHandled =>
          /\ pending_block_refs = {}
          /\ pending_block # None => ~aborted']_vars

\* the future of a Commit is in flight for a block into which a transaction was
\* delivered by a future that has completed
C36_Witness ==
    /\ ~aborted
    /\ \E f \in in_flight : f.req = "Commit" /\ f.pb[1].spent_nullifiers # {}

\* C37: once InitChain has been handled without a panic, the configured epoch
\* duration is that of the genesis app state, every pending block that a
\* BeginBlock installs carries it, and so does the genesis block that InitChain
\* committed.
C37_EpochDurationFromGenesis ==
    (initialized /\ genesis_request # None) =>
        /\ epoch_duration = GenesisAppStateOf.epoch_duration
        /\ pending_block # None =>
              pending_block[1].epoch_duration = GenesisAppStateOf.epoch_duration
        /\ InitChainSucceeded =>
              committed_block[1].epoch_duration = GenesisAppStateOf.epoch_duration

====
